---- MODULE Spec2Model ----
(***************************************************************************)
(* A model of full_library_api: the JSON-file store (users, tokens,        *)
(* authors, books, loans), the auth helpers and the HTTP handlers of       *)
(* APIServer.  Every handler is one action: it loads the collections it    *)
(* needs, decides the response, and saves what it changed.  resp holds the *)
(* request just handled and the response sent for it.  dir, disk and fd    *)
(* are the data directory under a save: the file names, the files' texts   *)
(* and the open files of each process.                                     *)
(***************************************************************************)
EXTENDS Integers, Sequences, FiniteSets, TLC

VARIABLES users, tokens, authors, books, loans, resp, pc, req, lbooks, lloans, lcode,
          dir, disk, fd

vars == <<users, tokens, authors, books, loans, resp, pc, req, lbooks, lloans, lcode,
          dir, disk, fd>>
store == <<users, tokens, authors, books, loans>>
files == <<dir, disk, fd>>
conc == <<pc, req, lbooks, lloans, lcode, files>>

\* ------------------------------------------------------------------ bounds
\* The loans a run may create and the largest copy count a request body names.
MaxLoans == 2
MaxCopies == 2

\* The longest list handed to paginate.
MaxItems == 3

\* The book ids a run may assign.
BookIdBound == {1}

\* The author ids a run may create.
AuthorIdBound == {1}

\* Python's None, for an absent body field, an unset returned_at, no header.
None == -1
\* An absent string field of a request body.
NoStr == "absent"
\* timedelta(days=14)
LoanDays == 14

\* Clock readings (datetime.utcnow()) a borrow and a return may see; the
\* handlers store the reading and never compare it.
BorrowTimes == {1}
ReturnTimes == {2}

\* ----------------------------------------------------------- pure helpers
\* str.upper() on the role and status strings the model uses.
Upper(s) ==
    CASE s = "member" -> "MEMBER"
      [] s = "borrowed" -> "BORROWED"
      [] s = "Returned" -> "RETURNED"
      [] s = "librarian" -> "LIBRARIAN"
      [] s = "admin" -> "ADMIN"
      [] s = "guest" -> "GUEST"
      [] OTHER -> s

\* str.lower() on the usernames, emails and flags the model uses.
Lower(s) ==
    CASE s = "Alice" -> "alice"
      [] s = "True" -> "true"
      [] s = "B@X" -> "b@x"
      [] s = "ALICE" -> "alice"
      [] s = "Bob" -> "bob"
      [] s = "A@X" -> "a@x"
      [] OTHER -> s

\* hashlib.sha256(password).hexdigest(): injective on the model's passwords.
HashPassword(pw) == <<"sha256", pw>>

SetMax(S) == CHOOSE m \in S : \A x \in S : x <= m
SetMin(S) == CHOOSE m \in S : \A x \in S : m <= x

Ids(seq) == {seq[i].id : i \in 1..Len(seq)}

\* An id taken from the number of records instead of the largest id: the
\* variant the id properties are measured against.
NextIdByCount(seq) == Len(seq) + 1

\* max([x.id for x in seq], default=0) + 1
NextId(seq) == (IF Ids(seq) = {} THEN 0 ELSE SetMax(Ids(seq))) + 1

\* next((x for x in seq if x.id == id), None): the first match's index, 0 for None.
FindById(seq, id) ==
    LET hits == {i \in 1..Len(seq) : seq[i].id = id}
    IN IF hits = {} THEN 0 ELSE SetMin(hits)

\* [x for x in seq if x.id != id]
RECURSIVE RemoveId(_, _)
RemoveId(seq, id) ==
    IF seq = <<>> THEN <<>>
    ELSE IF Head(seq).id = id THEN RemoveId(Tail(seq), id)
    ELSE <<Head(seq)>> \o RemoveId(Tail(seq), id)

\* ------------------------------------------------------------------- auth
StaffRoles == {"LIBRARIAN", "ADMIN"}
AnyRole == {"MEMBER", "LIBRARIAN", "ADMIN"}

\* A registration that compares usernames and emails as written.
RegisterUserExact(us, username, email, password, role) ==
    IF \E i \in 1..Len(us) : us[i].username = username
    THEN [users |-> us, error |-> "username_taken"]
    ELSE IF \E i \in 1..Len(us) : us[i].email = email
    THEN [users |-> us, error |-> "email_taken"]
    ELSE [users |-> Append(us, [id |-> NextId(us), username |-> username,
                                email |-> email,
                                password_hash |-> HashPassword(password),
                                role |-> Upper(role)]),
          error |-> "none"]

\* auth.register_user on a users list: the list afterwards and the error.
RegisterUser(us, username, email, password, role) ==
    IF \E i \in 1..Len(us) : Lower(us[i].username) = Lower(username)
    THEN [users |-> us, error |-> "username_taken"]
    ELSE IF \E i \in 1..Len(us) : Lower(us[i].email) = Lower(email)
    THEN [users |-> us, error |-> "email_taken"]
    ELSE [users |-> Append(us, [id |-> NextId(us), username |-> username,
                                email |-> email,
                                password_hash |-> HashPassword(password),
                                role |-> Upper(role)]),
          error |-> "none"]

\* auth.get_user_by_token: the index in us of the token's user, 0 for None.
GetUserByToken(tks, us, token) ==
    IF token \notin DOMAIN tks THEN 0 ELSE FindById(us, tks[token])

\* APIServer._get_auth_user: header is the token of "Authorization: Token <t>",
\* or NoHeader when the header is missing or has another scheme.
NoHeader == "none"
GetAuthUser(tks, us, header) ==
    IF header = NoHeader THEN 0 ELSE GetUserByToken(tks, us, header)

\* A role check that lets every resolved user through.
RequireRoleAnyUser(us, u, roles) == u # 0

\* auth.require_role(user, roles); u is an index in us, 0 for None.
RequireRole(us, u, roles) ==
    u # 0 /\ Upper(us[u].role) \in {Upper(r) : r \in roles}

\* Values of a request that are not integers.  NotInt is a string int()
\* rejects with ValueError, such as "abc" (in a body also null, which raises
\* TypeError where ValueError is caught with it); Infinite is the float that
\* json.loads makes of 1e999 or Infinity, on which int() raises
\* OverflowError; NonScalar is a JSON array or object with members, on which
\* int() raises TypeError; NotObject stands for a body that is valid JSON but
\* no object, on which body.get raises AttributeError.
NotInt == -2
Infinite == -3
NonScalar == -4
NotObject == -5

\* int(body[key]) returns: the key is in the body and its value converts.
Converts(v) == v \notin {None, NotInt, Infinite, NonScalar}

\* ------------------------------------------------------------ loan helpers
\* Loan.status
LoanStatus(l) == IF l.returned_at # None THEN "RETURNED" ELSE "BORROWED"

\* A duplicate check that never finds the loan.
ActiveLoanMissed(ls, uid, bid) == 0

\* The duplicate check of borrow: the first unreturned loan of uid on bid.
ActiveLoan(ls, uid, bid) ==
    LET hits == {i \in 1..Len(ls) : /\ ls[i].user_id = uid
                                    /\ ls[i].book_id = bid
                                    /\ ls[i].returned_at = None}
    IN IF hits = {} THEN 0 ELSE SetMin(hits)

\* A borrow that skips the copies check.
NoCopiesIgnored(book) == FALSE

\* book.available_copies < 1
NoCopies(book) == book.available_copies < 1

\* Loan(id=next_id, user_id, book_id, borrowed_at=now, due_at=now+14d, returned_at=None)
NewLoan(ls, uid, bid, now) ==
    [id |-> NextId(ls), user_id |-> uid, book_id |-> bid,
     borrowed_at |-> now, due_at |-> now + LoanDays, returned_at |-> None]

\* A borrow that forgets the decrement.
TakeCopyForgotten(bs, b) == bs

\* book.available_copies -= 1 on the book at index b
TakeCopy(bs, b) == [bs EXCEPT ![b].available_copies = @ - 1]

\* A return that forgets the increment.
GiveCopyForgotten(bs, bid) == bs

\* A return that counts the copy twice.
GiveCopyTwice(bs, bid) ==
    [b \in 1..Len(bs) |->
        IF bs[b].id = bid THEN [bs[b] EXCEPT !.available_copies = @ + 2] ELSE bs[b]]

\* book.available_copies += 1 on the first book with the loan's book_id, if any
GiveCopy(bs, bid) ==
    LET b == FindById(bs, bid)
    IN IF b = 0 THEN bs ELSE [bs EXCEPT ![b].available_copies = @ + 1]

\* A lookup by book_id that also finds the requester's returned loans.
TargetLoanAnyState(ls, uid, loan_id, book_id) ==
    IF loan_id # None THEN FindById(ls, loan_id)
    ELSE IF book_id # None
    THEN LET hits == {i \in 1..Len(ls) : ls[i].book_id = book_id /\ ls[i].user_id = uid}
         IN IF hits = {} THEN 0 ELSE SetMin(hits)
    ELSE 0

\* The target of a return: by loan_id when given, else by (book_id, user,
\* unreturned) when book_id is given; 0 for None.
TargetLoan(ls, uid, loan_id, book_id) ==
    IF loan_id # None THEN FindById(ls, loan_id)
    ELSE IF book_id # None THEN ActiveLoan(ls, uid, book_id)
    ELSE 0

\* target_loan.user_id != user.id and not require_role(user, staff)
ReturnForbidden(us, u, loan) ==
    loan.user_id # us[u].id /\ ~RequireRole(us, u, StaffRoles)

\* A return that skips the already-returned check.
AlreadyReturnedIgnored(loan) == FALSE

\* target_loan.returned_at is not None
AlreadyReturned(loan) == loan.returned_at # None

\* A return that also moves the due date to the time of the return.
MarkReturnedRewriting(ls, t, now) ==
    [ls EXCEPT ![t].returned_at = now, ![t].due_at = now]

\* target_loan.returned_at = now
MarkReturned(ls, t, now) == [ls EXCEPT ![t].returned_at = now]

\* ------------------------------------------------------------- responses
\* The response sent last: the endpoint that answered, the HTTP status, the
\* code of an error envelope ("created", "ok", "no_content" for a success),
\* and the id of the record a success payload carries (None for an error).
Response(op, status, code, id) ==
    [op |-> op, status |-> status, code |-> code, id |-> id]

\* An error envelope sent by a handler that has already saved an emptied
\* loan list: the variant the refusal properties are measured against.
RefuseAfterSave(op, status, code) ==
    /\ resp' = Response(op, status, code, None)
    /\ loans' = <<>>
    /\ UNCHANGED <<users, tokens, authors, books>>

\* _send_json of an error envelope: nothing is saved.
Refuse(op, status, code) ==
    /\ resp' = Response(op, status, code, None)
    /\ UNCHANGED store

UserId(us, u) == IF u = 0 THEN 0 ELSE us[u].id

\* ------------------------------------------------------ POST /api/loans/*
\* do_POST, /api/loans/borrow/.  book_id is body["book_id"] (None when missing).
Borrow(header, book_id) ==
    LET u == GetAuthUser(tokens, users, header)
        uid == UserId(users, u)
        b == FindById(books, book_id)
    IN IF ~RequireRole(users, u, AnyRole)
       THEN Refuse("borrow", 401, "not_authenticated")
       ELSE IF book_id = NotObject
       THEN Refuse("borrow", 0, "no_response")
       ELSE IF book_id = None \/ book_id = 0
       THEN Refuse("borrow", 400, "invalid")
       ELSE IF book_id = NotInt
       THEN Refuse("borrow", 400, "invalid")
       ELSE IF book_id \in {NonScalar, Infinite}
       THEN Refuse("borrow", 0, "no_response")
       ELSE IF b = 0
       THEN Refuse("borrow", 404, "not_found")
       ELSE IF NoCopies(books[b])
       THEN Refuse("borrow", 409, "no_copies")
       ELSE IF ActiveLoan(loans, uid, book_id) # 0
       THEN Refuse("borrow", 409, "duplicate_loan")
       ELSE /\ Len(loans) < MaxLoans
            /\ \E now \in BorrowTimes :
                  loans' = Append(loans, NewLoan(loans, uid, book_id, now))
            /\ books' = TakeCopy(books, b)
            /\ resp' = Response("borrow", 201, "created", NextId(loans))
            /\ UNCHANGED <<users, tokens, authors>>

\* do_POST, /api/loans/return/.
Return(header, loan_id, book_id) ==
    LET u == GetAuthUser(tokens, users, header)
        uid == UserId(users, u)
        t == TargetLoan(loans, uid, loan_id, book_id)
    IN IF ~RequireRole(users, u, AnyRole)
       THEN Refuse("return", 401, "not_authenticated")
       ELSE IF t = 0
       THEN Refuse("return", 404, "not_found")
       ELSE IF ReturnForbidden(users, u, loans[t])
       THEN Refuse("return", 403, "permission_denied")
       ELSE IF AlreadyReturned(loans[t])
       THEN Refuse("return", 409, "already_returned")
       ELSE /\ \E now \in ReturnTimes : loans' = MarkReturned(loans, t, now)
            /\ books' = GiveCopy(books, loans[t].book_id)
            /\ resp' = Response("return", 200, "ok", loans[t].id)
            /\ UNCHANGED <<users, tokens, authors>>

\* ------------------------------------------------- authors and books (CRUD)
\* do_POST, /api/authors/.  name is body["name"] (None when missing).
AuthorCreate(header, name) ==
    LET u == GetAuthUser(tokens, users, header)
    IN IF ~RequireRole(users, u, StaffRoles)
       THEN Refuse("author_create", 401, "not_authenticated")
       ELSE IF name = NoStr
       THEN Refuse("author_create", 400, "invalid")
       ELSE /\ authors' = Append(authors, [id |-> NextId(authors), name |-> name])
            /\ resp' = Response("author_create", 201, "created", NextId(authors))
            /\ UNCHANGED <<users, tokens, books, loans>>

\* do_PUT / do_PATCH, /api/authors/{res_id}/.
AuthorUpdate(header, res_id, name) ==
    LET u == GetAuthUser(tokens, users, header)
        a == FindById(authors, res_id)
    IN IF ~RequireRole(users, u, StaffRoles)
       THEN Refuse("author_update", 403, "permission_denied")
       ELSE IF a = 0
       THEN Refuse("author_update", 404, "not_found")
       ELSE /\ authors' = IF name # NoStr THEN [authors EXCEPT ![a].name = name] ELSE authors
            /\ resp' = Response("author_update", 200, "ok", res_id)
            /\ UNCHANGED <<users, tokens, books, loans>>

\* do_DELETE, /api/authors/{res_id}/.
AuthorDelete(header, res_id) ==
    LET u == GetAuthUser(tokens, users, header)
    IN IF ~RequireRole(users, u, StaffRoles)
       THEN Refuse("author_delete", 403, "permission_denied")
       ELSE IF FindById(authors, res_id) = 0
       THEN Refuse("author_delete", 404, "not_found")
       ELSE /\ authors' = RemoveId(authors, res_id)
            /\ resp' = Response("author_delete", 204, "no_content", None)
            /\ UNCHANGED <<users, tokens, books, loans>>

\* The required fields of a book body are all present.
BookBodyComplete(body) ==
    /\ body.title # NoStr
    /\ body.publication_year # None
    /\ body.isbn # NoStr
    /\ body.author # None
    /\ body.total_copies # None

\* Book(id=next_id, ..., available_copies=body.get("available_copies", total_copies))
NewBook(bs, body) ==
    [id |-> NextId(bs), title |-> body.title,
     publication_year |-> body.publication_year, isbn |-> body.isbn,
     author_id |-> body.author, total_copies |-> body.total_copies,
     available_copies |-> IF body.available_copies # None
                          THEN body.available_copies ELSE body.total_copies]

\* do_POST, /api/books/.
BookCreate(header, body) ==
    LET u == GetAuthUser(tokens, users, header)
    IN IF ~RequireRole(users, u, StaffRoles)
       THEN Refuse("book_create", 401, "not_authenticated")
       ELSE IF ~BookBodyComplete(body)
       THEN Refuse("book_create", 400, "invalid")
       ELSE IF FindById(authors, body.author) = 0
       THEN Refuse("book_create", 400, "invalid_author")
       ELSE /\ books' = Append(books, NewBook(books, body))
            /\ resp' = Response("book_create", 201, "created", NextId(books))
            /\ UNCHANGED <<users, tokens, authors, loans>>

\* An adjustment without the floor at 0.
AdjustedCopiesUnfloored(available, total, new_total) ==
    available + (new_total - total)

\* max(book.available_copies + diff, 0) with diff = new_total - book.total_copies
AdjustedCopies(available, total, new_total) ==
    IF available + (new_total - total) > 0
    THEN available + (new_total - total) ELSE 0

\* The field updates of do_PUT on a book, for a body none of whose values
\* raises OverflowError; a value that does not convert leaves its field.
UpdatedBook(book, body, as) ==
    LET b1 == IF body.title # NoStr THEN [book EXCEPT !.title = body.title] ELSE book
        b2 == IF Converts(body.publication_year)
              THEN [b1 EXCEPT !.publication_year = body.publication_year] ELSE b1
        b3 == IF body.isbn # NoStr THEN [b2 EXCEPT !.isbn = body.isbn] ELSE b2
        b4 == IF Converts(body.author) /\ FindById(as, body.author) # 0
              THEN [b3 EXCEPT !.author_id = body.author] ELSE b3
        b5 == IF Converts(body.total_copies)
              THEN [b4 EXCEPT !.total_copies = body.total_copies,
                              !.available_copies =
                                  AdjustedCopies(b4.available_copies, b4.total_copies,
                                                 body.total_copies)]
              ELSE b4
    IN IF Converts(body.available_copies)
       THEN [b5 EXCEPT !.available_copies = body.available_copies] ELSE b5

\* int() raises OverflowError on a value of the body, which the handler's
\* except (TypeError, ValueError) does not catch.
Overflows(body) ==
    Infinite \in {body.publication_year, body.author, body.total_copies,
                  body.available_copies}

\* do_PUT / do_PATCH, /api/books/{res_id}/.  An uncaught exception leaves the
\* handler before save_books and before any response is sent.
BookUpdate(header, res_id, body) ==
    LET u == GetAuthUser(tokens, users, header)
        b == FindById(books, res_id)
    IN IF ~RequireRole(users, u, StaffRoles)
       THEN Refuse("book_update", 403, "permission_denied")
       ELSE IF b = 0
       THEN Refuse("book_update", 404, "not_found")
       ELSE IF Overflows(body)
       THEN Refuse("book_update", 0, "no_response")
       ELSE /\ books' = [books EXCEPT ![b] = UpdatedBook(books[b], body, authors)]
            /\ resp' = Response("book_update", 200, "ok", res_id)
            /\ UNCHANGED <<users, tokens, authors, loans>>

\* do_DELETE, /api/books/{res_id}/.
BookDelete(header, res_id) ==
    LET u == GetAuthUser(tokens, users, header)
    IN IF ~RequireRole(users, u, StaffRoles)
       THEN Refuse("book_delete", 403, "permission_denied")
       ELSE IF FindById(books, res_id) = 0
       THEN Refuse("book_delete", 404, "not_found")
       ELSE /\ books' = RemoveId(books, res_id)
            /\ resp' = Response("book_delete", 204, "no_content", None)
            /\ UNCHANGED <<users, tokens, authors, loans>>

\* ------------------------------------------------------------ request inputs
\* The accounts of the store: a librarian, a member, one registered with a
\* role outside MEMBER/LIBRARIAN/ADMIN (register_user stores any role), a
\* second member and an administrator.
SeedAccounts ==
    << [username |-> "lib", email |-> "l@x", password |-> "pw", role |-> "librarian"],
       [username |-> "alice", email |-> "a@x", password |-> "pw", role |-> "member"],
       [username |-> "gus", email |-> "g@x", password |-> "pw", role |-> "guest"],
       [username |-> "bob", email |-> "b@x", password |-> "pw", role |-> "MEMBER"],
       [username |-> "root", email |-> "r@x", password |-> "pw", role |-> "admin"] >>

RECURSIVE RegisterAll(_, _)
RegisterAll(us, accounts) ==
    IF accounts = <<>> THEN us
    ELSE RegisterAll(RegisterUser(us, Head(accounts).username, Head(accounts).email,
                                  Head(accounts).password, Head(accounts).role).users,
                     Tail(accounts))

\* The tokens login issued to the librarian, the member and the third account.
SeedTokens == [t \in {"tL", "tA", "tG"} |->
                 CASE t = "tL" -> 1 [] t = "tA" -> 2 [] t = "tG" -> 3]

\* Authorization headers of requests: the issued tokens, an unknown one, none.
Headers == {"tL", "tA", "tG", "bad", NoHeader}

AuthorNames == {"Ann", "Bea"}
BookIdInputs == {None} \cup BookIdBound
LoanIdInputs == {None} \cup (1..MaxLoans)
CopyInputs == 0..MaxCopies

\* A return names its loan by loan_id or by book_id, or names nothing.
ReturnBodies ==
    {[loan_id |-> l, book_id |-> None] : l \in LoanIdInputs}
    \cup {[loan_id |-> None, book_id |-> b] : b \in BookIdInputs}

\* Book bodies: complete ones naming the existing author, one naming an
\* author that does not exist, one with a required field missing.
BookCreateBodies ==
    [title : {"T"}, publication_year : {2000}, isbn : {"I"}, author : {1},
     total_copies : CopyInputs, available_copies : {None} \cup CopyInputs]
    \cup {[title |-> "T", publication_year |-> 2000, isbn |-> "I", author |-> 2,
            total_copies |-> 1, available_copies |-> None],
           [title |-> "T", publication_year |-> 2000, isbn |-> "I", author |-> None,
            total_copies |-> 1, available_copies |-> None]}

BookUpdateBodies ==
    [title : {NoStr}, publication_year : {None}, isbn : {NoStr}, author : {None},
     total_copies : {None} \cup CopyInputs, available_copies : {None} \cup CopyInputs]

\* --------------------------------------------------------- specification
\* The requests in flight of the interleaved specification, one per handler
\* thread or server process sharing the data directory.
Procs == {1, 2, 3}

\* The books collection's file and the temporary file a save of it writes:
\* path and path.with_suffix(".tmp").
FileNames == {"books.json", "books.tmp"}

\* A process with no file open.
NoFd == [file |-> 0, pos |-> 0, text |-> <<>>]

IdleConc ==
    /\ pc = [p \in Procs |-> "idle"]
    /\ req = [p \in Procs |-> [header |-> NoHeader, book |-> None]]
    /\ lbooks = [p \in Procs |-> <<>>]
    /\ lloans = [p \in Procs |-> <<>>]
    /\ lcode = [p \in Procs |-> "none"]
    /\ dir = [n \in FileNames |-> 0]
    /\ disk = <<>>
    /\ fd = [p \in Procs |-> NoFd]

Init ==
    /\ users = RegisterAll(<<>>, SeedAccounts)
    /\ tokens = SeedTokens
    /\ authors = <<[id |-> 1, name |-> "Ann"]>>
    /\ books = <<>>
    /\ loans = <<>>
    /\ resp = Response("init", 0, "none", None)
    /\ IdleConc

\* The bodies a handler may read from a request with this header: a handler
\* whose role check fails answers before it parses the body, so one body
\* stands for all of them.
BodiesRead(header, roles, bodies) ==
    IF RequireRole(users, GetAuthUser(tokens, users, header), roles)
    THEN bodies
    ELSE {CHOOSE body \in bodies : TRUE}

Next ==
    \/ \E h \in Headers : \E b \in BodiesRead(h, AnyRole, BookIdInputs) :
          Borrow(h, b) /\ UNCHANGED conc
    \/ \E h \in Headers : \E body \in BodiesRead(h, AnyRole, ReturnBodies) :
          Return(h, body.loan_id, body.book_id) /\ UNCHANGED conc
    \/ \E h \in Headers : \E body \in BodiesRead(h, StaffRoles, BookCreateBodies) :
          /\ BookCreate(h, body)
          /\ resp'.status = 201 => resp'.id \in BookIdBound
          /\ UNCHANGED conc
    \/ \E h \in Headers, i \in BookIdBound :
          \E body \in BodiesRead(h, StaffRoles, BookUpdateBodies) :
             BookUpdate(h, i, body) /\ UNCHANGED conc
    \/ \E h \in Headers, i \in BookIdBound :
          BookDelete(h, i) /\ UNCHANGED conc

Spec == Init /\ [][Next]_vars

\* ----------------------------------------- interleaved borrow requests
\* The borrow handler has no lock around its load -> check -> save sequence
\* (do_POST, lines 159-190): each storage.load_* reads the file as it is then
\* and each storage.save_* replaces it.  A request is split at those calls.
ConcTokens == [t \in {"tL", "tA", "tB"} |->
                 CASE t = "tL" -> 1 [] t = "tA" -> 2 [] t = "tB" -> 4]

\* The header each request carries: three distinct users.
ConcHeader(p) == CASE p = 1 -> "tL" [] p = 2 -> "tA" [] OTHER -> "tB"

LastCopy == [id |-> 1, title |-> "T", publication_year |-> 2000, isbn |-> "I",
             author_id |-> 1, total_copies |-> 1, available_copies |-> 1]

ConcInit ==
    /\ users = RegisterAll(<<>>, SeedAccounts)
    /\ tokens = ConcTokens
    /\ authors = <<[id |-> 1, name |-> "Ann"]>>
    /\ books = <<LastCopy>>
    /\ loans = <<>>
    /\ resp = Response("init", 0, "none", None)
    /\ IdleConc

ConcUser(p) == UserId(users, GetAuthUser(tokens, users, req[p].header))

Finish(p, code) ==
    /\ pc' = [pc EXCEPT ![p] = "done"]
    /\ lcode' = [lcode EXCEPT ![p] = code]

\* The request arrives; the role check and the body parse (lines 144-157).
BorrowBegin(p) ==
    /\ pc[p] = "idle"
    /\ req' = [req EXCEPT ![p] = [header |-> ConcHeader(p), book |-> 1]]
    /\ IF RequireRole(users, GetAuthUser(tokens, users, ConcHeader(p)), AnyRole)
       THEN pc' = [pc EXCEPT ![p] = "load_books"] /\ UNCHANGED lcode
       ELSE Finish(p, "not_authenticated")
    /\ UNCHANGED <<store, resp, lbooks, lloans>>

\* books = storage.load_books() and the checks on the book (lines 159-166).
BorrowLoadBooks(p) ==
    /\ pc[p] = "load_books"
    /\ lbooks' = [lbooks EXCEPT ![p] = books]
    /\ IF FindById(books, req[p].book) = 0 THEN Finish(p, "not_found")
       ELSE IF NoCopies(books[FindById(books, req[p].book)]) THEN Finish(p, "no_copies")
       ELSE pc' = [pc EXCEPT ![p] = "load_loans"] /\ UNCHANGED lcode
    /\ UNCHANGED <<store, resp, req, lloans>>

\* loans = storage.load_loans(), the duplicate check, and the changes made to
\* the handler's own copies of the two lists (lines 168-188).
BorrowLoadLoans(p) ==
    /\ pc[p] = "load_loans"
    /\ IF ActiveLoan(loans, ConcUser(p), req[p].book) # 0
       THEN /\ Finish(p, "duplicate_loan")
            /\ lloans' = [lloans EXCEPT ![p] = loans]
            /\ UNCHANGED lbooks
       ELSE /\ \E now \in BorrowTimes :
                 lloans' = [lloans EXCEPT ![p] =
                              Append(loans, NewLoan(loans, ConcUser(p), req[p].book, now))]
            /\ lbooks' = [lbooks EXCEPT ![p] =
                            TakeCopy(lbooks[p], FindById(lbooks[p], req[p].book))]
            /\ pc' = [pc EXCEPT ![p] = "save_books"]
            /\ UNCHANGED lcode
    /\ UNCHANGED <<store, resp, req>>

\* storage.save_books(books) (line 189)
BorrowSaveBooks(p) ==
    /\ pc[p] = "save_books"
    /\ books' = lbooks[p]
    /\ pc' = [pc EXCEPT ![p] = "save_loans"]
    /\ UNCHANGED <<users, tokens, authors, loans, resp, req, lbooks, lloans, lcode>>

\* storage.save_loans(loans) and the 201 response (lines 190-191)
BorrowSaveLoans(p) ==
    /\ pc[p] = "save_loans"
    /\ loans' = lloans[p]
    /\ Finish(p, "created")
    /\ UNCHANGED <<users, tokens, authors, books, resp, req, lbooks, lloans>>

ConcNext ==
    \/ \E p \in Procs : BorrowBegin(p) /\ UNCHANGED files
    \/ \E p \in Procs : BorrowLoadBooks(p) /\ UNCHANGED files
    \/ \E p \in Procs : BorrowLoadLoans(p) /\ UNCHANGED files
    \/ \E p \in Procs : BorrowSaveBooks(p) /\ UNCHANGED files
    \/ \E p \in Procs : BorrowSaveLoans(p) /\ UNCHANGED files

SpecConc == ConcInit /\ [][ConcNext]_vars

\* ================================================================ claims
\* The user a header resolves to (0 when it resolves to none).
Requester(h) == UserId(users, GetAuthUser(tokens, users, h))

\* The role stored for the user a header resolves to.
RequesterRole(h) ==
    IF Requester(h) = 0 THEN "none"
    ELSE users[GetAuthUser(tokens, users, h)].role

HoldsUnreturned(uid, bid) ==
    \E i \in 1..Len(loans) : /\ loans[i].user_id = uid
                             /\ loans[i].book_id = bid
                             /\ loans[i].returned_at = None

HoldsReturned(uid, bid) ==
    \E i \in 1..Len(loans) : /\ loans[i].user_id = uid
                             /\ loans[i].book_id = bid
                             /\ loans[i].returned_at # None

BookExists(bid) == \E k \in 1..Len(books) : books[k].id = bid

\* books' is books with the available_copies of the books whose id is bid
\* changed by d, and nothing else changed.
CopiesMoved(bid, d) ==
    /\ Len(books') = Len(books)
    /\ \A k \in 1..Len(books) :
          books'[k] = IF books[k].id = bid
                      THEN [books[k] EXCEPT !.available_copies = books[k].available_copies + d]
                      ELSE books[k]

\* C1: after any sequence of requests handled to completion, no two loans
\* with returned_at unset share the same (user_id, book_id) pair.
C1_OneActiveLoanPerPair ==
    \A i, j \in 1..Len(loans) :
        (i # j /\ loans[i].returned_at = None /\ loans[j].returned_at = None)
            => <<loans[i].user_id, loans[i].book_id>> # <<loans[j].user_id, loans[j].book_id>>

\* A user borrowed a book again after returning it: two loans of one pair, one open.
C1_Witness ==
    \E i, j \in 1..Len(loans) :
        /\ i # j
        /\ loans[i].user_id = loans[j].user_id
        /\ loans[i].book_id = loans[j].book_id
        /\ loans[i].returned_at # None
        /\ loans[j].returned_at = None

\* What a successful borrow of book b by the requester of header h leaves.
C2_BorrowPost(h, b) ==
    LET n == Len(loans)
    IN /\ BookExists(b)
       /\ CopiesMoved(b, -1)
       /\ Len(loans') = n + 1
       /\ \A i \in 1..n : loans'[i] = loans[i]
       /\ loans'[n + 1].user_id = Requester(h)
       /\ loans'[n + 1].book_id = b
       /\ loans'[n + 1].returned_at = None
       /\ \A i \in 1..n : loans[i].id < loans'[n + 1].id
       /\ \/ n = 0 /\ loans'[n + 1].id = 1
          \/ \E i \in 1..n : loans'[n + 1].id = loans[i].id + 1
       /\ resp'.id = loans'[n + 1].id

\* C2: every borrow answered 201 leaves the borrowed book's available_copies
\* one lower, adds exactly one loan, unreturned, for the requester and that
\* book, and gives it the id one above the largest loan id (1 when there is none).
C2_BorrowEffect ==
    [][(resp'.op = "borrow" /\ resp'.status = 201)
          => \A h \in Headers, b \in BookIdInputs :
                Borrow(h, b) => C2_BorrowPost(h, b)]_vars

\* A borrow was just answered 201 and its loan is on file, unreturned.
C2_Witness ==
    /\ resp.op = "borrow"
    /\ resp.status = 201
    /\ \E i \in 1..Len(loans) : loans[i].id = resp.id /\ loans[i].returned_at = None

\* The loan a successful return answered with is marked returned, and only it changed.
C3_LoanClosed ==
    /\ Len(loans') = Len(loans)
    /\ \E t \in 1..Len(loans) :
          /\ loans[t].id = resp'.id
          /\ loans[t].returned_at = None
          /\ loans'[t].returned_at # None
          /\ LoanStatus(loans'[t]) = "RETURNED"
          /\ loans'[t] = [loans[t] EXCEPT !.returned_at = loans'[t].returned_at]
          /\ \A i \in 1..Len(loans) : i # t => loans'[i] = loans[i]

C4_CopiesInRange ==
    \A k \in 1..Len(books) :
        0 <= books[k].available_copies /\ books[k].available_copies <= books[k].total_copies

\* C5: once a loan's returned_at is set it never changes or becomes unset, the
\* loan stays on file, and a return request naming that loan changes no book.
C5_ReturnedOnce ==
    [][/\ \A i \in 1..Len(loans) :
             loans[i].returned_at # None
                => /\ i <= Len(loans')
                   /\ loans'[i].id = loans[i].id
                   /\ loans'[i].returned_at = loans[i].returned_at
       /\ resp'.op = "return"
             => \A h \in Headers, l \in 1..MaxLoans :
                   (/\ Return(h, l, None)
                    /\ \E i \in 1..Len(loans) : loans[i].id = l /\ loans[i].returned_at # None)
                      => books' = books /\ loans' = loans]_vars

\* A loan was returned and the same user has borrowed since: the returned loan
\* is still on file, returned, in a later state.
C5_Witness ==
    /\ resp.op = "borrow"
    /\ resp.status = 201
    /\ \E i \in 1..Len(loans) : loans[i].returned_at # None /\ loans[i].id < resp.id

\* C6 as stated: when the borrow requests of distinct users for the last copy
\* have all been answered, exactly one got 201, the others no_copies, the book
\* has no copy left and exactly one loan is unreturned.
C6_ExactlyOneSucceeds ==
    (\A p \in Procs : pc[p] = "done")
       => /\ Cardinality({p \in Procs : lcode[p] = "created"}) = 1
          /\ \A p \in Procs : lcode[p] \in {"created", "no_copies"}
          /\ books[1].available_copies = 0
          /\ Cardinality({i \in 1..Len(loans) : loans[i].returned_at = None}) = 1

\* C7 as stated: a borrow by a user who holds an unreturned loan on that book
\* is answered 409 duplicate_loan and creates no loan.
C7_AsStated ==
    [][resp'.op = "borrow" => \A h \in Headers, b \in BookIdBound :
          (/\ Borrow(h, b)
           /\ Requester(h) # 0
           /\ BookExists(b)
           /\ HoldsUnreturned(Requester(h), b))
             => /\ resp'.status = 409
                /\ resp'.code = "duplicate_loan"
                /\ loans' = loans]_vars

\* C7 (amended): such a borrow is answered 409 and creates no loan and moves no
\* copy; the code is duplicate_loan when the book has an available copy and
\* no_copies when it has none, the copies check coming first.
C7_RepeatBorrowRefused ==
    [][resp'.op = "borrow" => \A h \in Headers, b \in BookIdBound :
          (/\ Borrow(h, b)
           /\ Requester(h) # 0
           /\ BookExists(b)
           /\ HoldsUnreturned(Requester(h), b))
             => /\ resp'.status = 409
                /\ resp'.code = IF \E k \in 1..Len(books) :
                                      books[k].id = b /\ books[k].available_copies >= 1
                                THEN "duplicate_loan" ELSE "no_copies"
                /\ loans' = loans
                /\ books' = books]_vars

\* A borrow was just refused as a duplicate while copies were available.
C7_Witness ==
    /\ resp.op = "borrow"
    /\ resp.code = "duplicate_loan"
    /\ \E i \in 1..Len(loans), k \in 1..Len(books) :
          /\ loans[i].returned_at = None
          /\ books[k].id = loans[i].book_id
          /\ books[k].available_copies >= 1

\* C8 as stated: a borrow by a user the token resolves to, for an existing book
\* with available_copies = 0, is answered 409 no_copies, creates no loan and
\* leaves available_copies unchanged.
C8_AsStated ==
    [][resp'.op = "borrow" => \A h \in Headers, b \in BookIdBound :
          (/\ Borrow(h, b)
           /\ Requester(h) # 0
           /\ \E k \in 1..Len(books) : books[k].id = b /\ books[k].available_copies = 0)
             => /\ resp'.status = 409
                /\ resp'.code = "no_copies"
                /\ loans' = loans
                /\ books' = books]_vars

\* What remains of C9 for a request naming loan_id l: owner or staff, the loan
\* already returned, answered 409 already_returned, nothing changed.
C9_ByLoanId ==
    \A h \in Headers, l \in 1..MaxLoans :
        (/\ Return(h, l, None)
         /\ \E i \in 1..Len(loans) :
               /\ loans[i].id = l
               /\ loans[i].returned_at # None
               /\ \/ loans[i].user_id = Requester(h)
                  \/ RequesterRole(h) \in StaffRoles)
           => /\ resp'.status = 409
              /\ resp'.code = "already_returned"
              /\ loans' = loans
              /\ books' = books

\* A request naming book_id b whose requester's loans on b are all returned.
C9_NamesReturnedByBook(h, b) ==
    /\ Return(h, None, b)
    /\ HoldsReturned(Requester(h), b)
    /\ ~HoldsUnreturned(Requester(h), b)

\* C9 as stated: a return targeting an already returned loan is answered 409
\* already_returned and changes nothing, by loan_id and by book_id alike.
C9_AsStated ==
    [][resp'.op = "return" =>
       /\ C9_ByLoanId
       /\ \A h \in Headers, b \in BookIdBound :
             C9_NamesReturnedByBook(h, b)
                => /\ resp'.status = 409
                   /\ resp'.code = "already_returned"
                   /\ loans' = loans
                   /\ books' = books]_vars

\* C9 (amended): by loan_id the answer is 409 already_returned, for the owner
\* and for staff; by book_id only the requester's unreturned loan is looked
\* up, so the answer is 404 not_found; in both cases nothing changes.
C9_ReturnedLoanRefused ==
    [][resp'.op = "return" =>
       /\ C9_ByLoanId
       /\ \A h \in Headers, b \in BookIdBound :
             C9_NamesReturnedByBook(h, b)
                => /\ resp'.status = 404
                   /\ resp'.code = "not_found"
                   /\ loans' = loans
                   /\ books' = books]_vars

\* A return was just refused as already returned.
C9_Witness ==
    /\ resp.op = "return"
    /\ resp.status = 409
    /\ resp.code = "already_returned"
    /\ \E i \in 1..Len(loans) : loans[i].returned_at # None

\* C10 as stated: a return by a user the token resolves to, who neither owns
\* the loan nor has role LIBRARIAN or ADMIN, is answered 403 permission_denied
\* and leaves the loan and the books unchanged.
C10_AsStated ==
    [][resp'.op = "return" => \A h \in Headers, l \in 1..MaxLoans :
          (/\ Return(h, l, None)
           /\ Requester(h) # 0
           /\ RequesterRole(h) \notin StaffRoles
           /\ \E i \in 1..Len(loans) : loans[i].id = l /\ loans[i].user_id # Requester(h))
             => /\ resp'.status = 403
                /\ resp'.code = "permission_denied"
                /\ loans' = loans
                /\ books' = books]_vars

\* ------------------------------------------------------ GET /api/loans/*
\* Clock readings (datetime.utcnow()) a loan listing may see: before and
\* after the due date of a loan borrowed at a time of BorrowTimes.
ReadTimes == {3, 16}

\* Loan.is_overdue
IsOverdue(l, now) == l.returned_at = None /\ l.due_at < now

Range(seq) == {seq[i] : i \in 1..Len(seq)}

\* [x for x in seq if x in keep]
RECURSIVE Filter(_, _)
Filter(seq, keep) ==
    IF seq = <<>> THEN <<>>
    ELSE IF Head(seq) \in keep THEN <<Head(seq)>> \o Filter(Tail(seq), keep)
    ELSE Filter(Tail(seq), keep)

\* A listing that forgets to keep the requester's loans only.
OwnLoansUnscoped(ls, uid) == ls

\* loans = [l for l in loans if l.user_id == user.id]
OwnLoans(ls, uid) == Filter(ls, {l \in Range(ls) : l.user_id = uid})

\* utils.apply_loan_filters: user_id, then status, then overdue.
ApplyLoanFilters(ls, params, now) ==
    LET f1 == IF params.user_id # None
              THEN Filter(ls, {l \in Range(ls) : l.user_id = params.user_id})
              ELSE ls
        st == Upper(params.status)
        f2 == IF params.status = NoStr THEN f1
              ELSE IF st = "BORROWED"
              THEN Filter(f1, {l \in Range(f1) : l.returned_at = None})
              ELSE IF st = "RETURNED"
              THEN Filter(f1, {l \in Range(f1) : l.returned_at # None})
              ELSE f1
    IN IF params.overdue # NoStr /\ Lower(params.overdue) = "true"
       THEN Filter(f2, {l \in Range(f2) : IsOverdue(l, now)})
       ELSE f2

\* The field an ordering names and whether it starts with "-".
OrderReverse(ordering) == ordering \in {"-id", "-due_at", "-borrowed_at"}
OrderField(ordering) ==
    CASE ordering = "-id" -> "id"
      [] ordering = "-due_at" -> "due_at"
      [] ordering = "-borrowed_at" -> "borrowed_at"
      [] OTHER -> ordering

\* key_funcs[field](l)
LoanKey(l, field) ==
    CASE field = "id" -> l.id
      [] field = "borrowed_at" -> l.borrowed_at
      [] field = "due_at" -> l.due_at

\* sorted(...) is stable, with reverse=True too: x goes after the loans that
\* do not come after it.
RECURSIVE InsertLoan(_, _, _, _)
InsertLoan(sorted, x, field, reverse) ==
    IF sorted = <<>> THEN <<x>>
    ELSE IF (IF reverse THEN LoanKey(Head(sorted), field) >= LoanKey(x, field)
                        ELSE LoanKey(Head(sorted), field) <= LoanKey(x, field))
    THEN <<Head(sorted)>> \o InsertLoan(Tail(sorted), x, field, reverse)
    ELSE <<x>> \o sorted

RECURSIVE SortLoans(_, _, _)
SortLoans(ls, field, reverse) ==
    IF ls = <<>> THEN <<>>
    ELSE InsertLoan(SortLoans(SubSeq(ls, 1, Len(ls) - 1), field, reverse),
                    ls[Len(ls)], field, reverse)

\* utils.apply_loan_order
ApplyLoanOrder(ls, ordering) ==
    IF ordering = NoStr THEN ls
    ELSE IF OrderField(ordering) \notin {"id", "borrowed_at", "due_at"} THEN ls
    ELSE SortLoans(ls, OrderField(ordering), OrderReverse(ordering))

\* A pagination whose page count rounds down.
PaginateFloored(items, page, page_size) ==
    LET p == IF page > 1 THEN page ELSE 1
        ps == IF page_size > 1 THEN page_size ELSE 1
        start == (p - 1) * ps
        end == IF start + ps < Len(items) THEN start + ps ELSE Len(items)
    IN [results |-> SubSeq(items, start + 1, end), count |-> Len(items),
        page |-> p, page_size |-> ps, total_pages |-> Len(items) \div ps]

\* utils.paginate
Paginate(items, page, page_size) ==
    LET p == IF page > 1 THEN page ELSE 1
        ps == IF page_size > 1 THEN page_size ELSE 1
        start == (p - 1) * ps
        end == IF start + ps < Len(items) THEN start + ps ELSE Len(items)
    IN [results |-> SubSeq(items, start + 1, end), count |-> Len(items),
        page |-> p, page_size |-> ps,
        total_pages |-> (Len(items) + ps - 1) \div ps]

\* int(params.get("page", 1) or 1) and int(params.get("page_size", 10) or 10)
PageOf(params) == IF params.page = None THEN 1 ELSE params.page
PageSizeOf(params) == IF params.page_size = None THEN 10 ELSE params.page_size

\* What a loan endpoint answered: the response (status, code, and for a 200
\* the results with the page data) together with the request it answers,
\* i.e. the id of the user the token resolved to (0 for none) and the loan id
\* of the path (None for a listing).
ReadResponse(op, status, code, uid, target, paged) ==
    [op |-> op, status |-> status, code |-> code, id |-> None,
     user |-> uid, target |-> target,
     results |-> paged.results, count |-> paged.count, page |-> paged.page,
     page_size |-> paged.page_size, total_pages |-> paged.total_pages]

\* An error envelope carries no results.
NoPage == [results |-> <<>>, count |-> 0, page |-> 1, page_size |-> 1, total_pages |-> 0]

\* The loans of a listing: filtered, ordered, paginated.
LoanPage(ls, params, now) ==
    Paginate(ApplyLoanOrder(ApplyLoanFilters(ls, params, now), params.ordering),
             PageOf(params), PageSizeOf(params))

\* do_GET, /api/loans/mine/
LoansMine(header, params) ==
    LET u == GetAuthUser(tokens, users, header)
        uid == UserId(users, u)
    IN /\ IF u = 0
          THEN resp' = ReadResponse("loans_mine", 401, "not_authenticated", uid, None, NoPage)
          ELSE \E now \in ReadTimes :
                  resp' = ReadResponse("loans_mine", 200, "ok", uid, None,
                             LoanPage(OwnLoans(loans, uid), params, now))
       /\ UNCHANGED store

\* do_GET, /api/loans/
LoansList(header, params) ==
    LET u == GetAuthUser(tokens, users, header)
        uid == UserId(users, u)
    IN /\ IF ~RequireRole(users, u, StaffRoles)
          THEN resp' = ReadResponse("loans_list", 403, "permission_denied", uid, None, NoPage)
          ELSE \E now \in ReadTimes :
                  resp' = ReadResponse("loans_list", 200, "ok", uid, None,
                             LoanPage(loans, params, now))
       /\ UNCHANGED store

\* loan.user_id != user.id and not require_role(user, staff)
DetailForbidden(us, u, loan) ==
    loan.user_id # us[u].id /\ ~RequireRole(us, u, StaffRoles)

\* do_GET, /api/loans/{res_id}/
LoanDetail(header, res_id) ==
    LET u == GetAuthUser(tokens, users, header)
        uid == UserId(users, u)
        t == FindById(loans, res_id)
    IN /\ IF u = 0
          THEN resp' = ReadResponse("loan_detail", 401, "not_authenticated", uid, res_id, NoPage)
          ELSE IF t = 0
          THEN resp' = ReadResponse("loan_detail", 404, "not_found", uid, res_id, NoPage)
          ELSE IF DetailForbidden(users, u, loans[t])
          THEN resp' = ReadResponse("loan_detail", 403, "permission_denied", uid, res_id, NoPage)
          ELSE resp' = ReadResponse("loan_detail", 200, "ok", uid, res_id,
                          [results |-> <<loans[t]>>, count |-> 1, page |-> 1,
                           page_size |-> 1, total_pages |-> 1])
       /\ UNCHANGED store

\* Query strings of a loan listing: user_id and status filters, the overdue
\* filter, a status that names no status, and orderings with pages.
NoQuery == [user_id |-> None, status |-> NoStr, overdue |-> NoStr,
            ordering |-> NoStr, page |-> None, page_size |-> None]

LoanQueries ==
    {[NoQuery EXCEPT !.user_id = u, !.status = st] :
        u \in {None, 1, 2}, st \in {NoStr, "borrowed", "Returned"}}
    \cup {[NoQuery EXCEPT !.overdue = "True"],
          [NoQuery EXCEPT !.status = "junk"],
          [NoQuery EXCEPT !.ordering = "due_at"],
          [NoQuery EXCEPT !.ordering = "bogus", !.page = 1, !.page_size = 1],
          [NoQuery EXCEPT !.ordering = "-id", !.page = 2, !.page_size = 1],
          [NoQuery EXCEPT !.user_id = 1, !.ordering = "-id", !.page = 1, !.page_size = 1]}

\* ------------------------------------------------ the catalogue specification
\* Author and book requests with the tokens of a librarian, a member, the
\* account with another role, and an administrator.
CatalogTokens == [t \in {"tL", "tA", "tG", "tR"} |->
                    CASE t = "tL" -> 1 [] t = "tA" -> 2 [] t = "tG" -> 3 [] t = "tR" -> 5]

CatalogHeaders == {"tL", "tA", "tG", "tR", "bad", NoHeader}

CatalogInit ==
    /\ users = RegisterAll(<<>>, SeedAccounts)
    /\ tokens = CatalogTokens
    /\ authors = <<>>
    /\ books = <<>>
    /\ loans = <<>>
    /\ resp = Response("init", 0, "none", None)
    /\ IdleConc

CatalogNext ==
    \/ \E h \in CatalogHeaders : \E n \in BodiesRead(h, StaffRoles, AuthorNames \cup {NoStr}) :
          /\ AuthorCreate(h, n)
          /\ resp'.status = 201 => resp'.id \in AuthorIdBound
          /\ UNCHANGED conc
    \/ \E h \in CatalogHeaders, i \in AuthorIdBound :
          \E n \in BodiesRead(h, StaffRoles, AuthorNames \cup {NoStr}) :
             AuthorUpdate(h, i, n) /\ UNCHANGED conc
    \/ \E h \in CatalogHeaders, i \in AuthorIdBound :
          AuthorDelete(h, i) /\ UNCHANGED conc
    \/ \E h \in CatalogHeaders : \E body \in BodiesRead(h, StaffRoles, BookCreateBodies) :
          /\ BookCreate(h, body)
          /\ resp'.status = 201 => resp'.id \in BookIdBound
          /\ UNCHANGED conc
    \/ \E h \in CatalogHeaders, i \in BookIdBound :
          \E body \in BodiesRead(h, StaffRoles, BookUpdateBodies) :
             BookUpdate(h, i, body) /\ UNCHANGED conc
    \/ \E h \in CatalogHeaders, i \in BookIdBound :
          BookDelete(h, i) /\ UNCHANGED conc
    \/ \E h \in CatalogHeaders :
          LoansMine(h, NoQuery) /\ UNCHANGED conc
    \/ \E h \in CatalogHeaders :
          LoansList(h, NoQuery) /\ UNCHANGED conc
    \/ \E h \in CatalogHeaders, l \in 1..MaxLoans :
          LoanDetail(h, l) /\ UNCHANGED conc

SpecCatalog == CatalogInit /\ [][CatalogNext]_vars

\* The requester of header h is a user whose role is LIBRARIAN or ADMIN.
IsStaff(h) == Requester(h) # 0 /\ Upper(RequesterRole(h)) \in StaffRoles

\* The step is an author or book create, update or delete sent with header h.
CatalogWrite(h) ==
    \/ /\ resp'.op = "author_create"
       /\ \E n \in BodiesRead(h, StaffRoles, AuthorNames \cup {NoStr}) : AuthorCreate(h, n)
    \/ /\ resp'.op = "author_update"
       /\ \E i \in AuthorIdBound :
             \E n \in BodiesRead(h, StaffRoles, AuthorNames \cup {NoStr}) :
                AuthorUpdate(h, i, n)
    \/ resp'.op = "author_delete" /\ \E i \in AuthorIdBound : AuthorDelete(h, i)
    \/ /\ resp'.op = "book_create"
       /\ \E body \in BodiesRead(h, StaffRoles, BookCreateBodies) : BookCreate(h, body)
    \/ /\ resp'.op = "book_update"
       /\ \E i \in BookIdBound :
             \E body \in BodiesRead(h, StaffRoles, BookUpdateBodies) :
                BookUpdate(h, i, body)
    \/ resp'.op = "book_delete" /\ \E i \in BookIdBound : BookDelete(h, i)

\* C11: an author or book create, update or delete sent by a requester who
\* is not a user with role LIBRARIAN or ADMIN leaves authors and books
\* unchanged, and every change of authors or books comes from such a request
\* sent by a user with one of the two roles.
C11_StaffOnlyWrites ==
    [][(authors' # authors \/ books' # books)
          => /\ \A h \in CatalogHeaders : CatalogWrite(h) => IsStaff(h)
             /\ \E h \in CatalogHeaders : IsStaff(h) /\ CatalogWrite(h)]_vars

\* A member's create was just refused while the catalogue holds an author and
\* a book that staff created.
C11_Witness ==
    /\ resp.op \in {"author_create", "book_create"}
    /\ resp.status = 401
    /\ Len(authors) = 1
    /\ Len(books) = 1

\* C12 as stated: a borrow or return request whose token resolves to a user
\* passes the authentication check, whatever role is stored for the user: it
\* is never answered 401 not_authenticated.
C12_AsStated ==
    [][resp'.op \in {"borrow", "return"}
          => \A h \in Headers :
                (/\ Requester(h) # 0
                 /\ \/ \E b \in BookIdInputs : Borrow(h, b)
                    \/ \E body \in ReturnBodies : Return(h, body.loan_id, body.book_id))
                   => ~(resp'.status = 401 /\ resp'.code = "not_authenticated")]_vars

\* The step is a POST /api/authors/ or POST /api/books/ sent with header h.
CreateBy(h) ==
    \/ \E n \in AuthorNames \cup {NoStr} : AuthorCreate(h, n)
    \/ \E body \in BookCreateBodies : BookCreate(h, body)

\* C13 as stated: POST /api/authors/ and POST /api/books/ answer 401
\* not_authenticated when no user resolves and 403 permission_denied when the
\* token resolves to a user with role MEMBER, and create nothing in both cases.
C13_AsStated ==
    [][resp'.op \in {"author_create", "book_create"}
          => \A h \in CatalogHeaders :
                CreateBy(h)
                   => /\ Requester(h) = 0
                         => /\ resp'.status = 401
                            /\ resp'.code = "not_authenticated"
                            /\ authors' = authors /\ books' = books
                      /\ (Requester(h) # 0 /\ RequesterRole(h) = "MEMBER")
                         => /\ resp'.status = 403
                            /\ resp'.code = "permission_denied"
                            /\ authors' = authors /\ books' = books]_vars

\* ---------------------------------------------------- the reading specification
\* A book with copies on the shelf; users borrow, return and read loans.
ShelfBook == [id |-> 1, title |-> "T", publication_year |-> 2000, isbn |-> "I",
              author_id |-> 1, total_copies |-> MaxCopies,
              available_copies |-> MaxCopies]

ReadInit ==
    /\ users = RegisterAll(<<>>, SeedAccounts)
    /\ tokens = SeedTokens
    /\ authors = <<[id |-> 1, name |-> "Ann"]>>
    /\ books = <<ShelfBook>>
    /\ loans = <<>>
    /\ resp = Response("init", 0, "none", None)
    /\ IdleConc

ReadNext ==
    \/ \E h \in Headers : \E b \in BodiesRead(h, AnyRole, BookIdInputs) :
          Borrow(h, b) /\ UNCHANGED conc
    \/ \E h \in Headers : \E body \in BodiesRead(h, AnyRole, ReturnBodies) :
          Return(h, body.loan_id, body.book_id) /\ UNCHANGED conc
    \/ \E h \in Headers, q \in LoanQueries :
          LoansMine(h, q) /\ UNCHANGED conc
    \/ \E h \in Headers : \E q \in BodiesRead(h, StaffRoles, LoanQueries) :
          LoansList(h, q) /\ UNCHANGED conc
    \/ \E h \in Headers, l \in 1..MaxLoans :
          LoanDetail(h, l) /\ UNCHANGED conc

SpecRead == ReadInit /\ [][ReadNext]_vars

\* The last request was a loan read sent by a user whose role is neither
\* LIBRARIAN nor ADMIN.
ReadByNonStaff ==
    /\ resp.op \in {"loans_mine", "loans_list", "loan_detail"}
    /\ resp.user # 0
    /\ Upper(users[FindById(users, resp.user)].role) \notin StaffRoles

\* C15: a user whose role is not LIBRARIAN or ADMIN receives only loans whose
\* user_id is their own: /api/loans/mine/ whatever the query (user_id
\* included), /api/loans/ is refused, and /api/loans/{id}/ of another user's
\* loan is refused with permission_denied.
C15_OwnLoansOnly ==
    ReadByNonStaff
       => /\ \A i \in 1..Len(resp.results) : resp.results[i].user_id = resp.user
          /\ resp.op = "loans_mine" => resp.status = 200
          /\ resp.op = "loans_list"
                => resp.status = 403 /\ resp.code = "permission_denied"
          /\ (/\ resp.op = "loan_detail"
              /\ \E i \in 1..Len(loans) :
                    loans[i].id = resp.target /\ loans[i].user_id # resp.user)
                => resp.status = 403 /\ resp.code = "permission_denied"

\* The member just listed her loans and got one, while another user's loan is
\* on file.
C15_Witness ==
    /\ resp.op = "loans_mine"
    /\ resp.status = 200
    /\ Len(resp.results) >= 1
    /\ resp.results[1].user_id = 2
    /\ \E i \in 1..Len(loans) : loans[i].user_id # 2

\* The step is a request to a loan read endpoint whose token resolved to uid.
ReadStep(uid) ==
    /\ resp'.op \in {"loans_mine", "loans_list", "loan_detail"}
    /\ resp'.user = uid

\* C14 as stated: on the endpoints that need a token (here author and book
\* create, update and delete, and the three loan reads) a request with a
\* missing or unknown token is answered 401 not_authenticated, and 403
\* permission_denied is sent only when the token resolves to a user.
C14_AsStated ==
    [][\A h \in CatalogHeaders :
          (CatalogWrite(h) \/ ReadStep(Requester(h)))
             => /\ Requester(h) = 0
                   => resp'.status = 401 /\ resp'.code = "not_authenticated"
                /\ resp'.status = 403 => Requester(h) # 0]_vars

\* ------------------------------------------------------ POST /api/auth/*
\* The values secrets.token_hex(16) may return.
TokenPool == {"t1", "t2", "t3"}

\* The token map with no token.
NoTokens == [t \in {} |-> 0]

\* auth.authenticate_user: the index of the first user whose username matches
\* ignoring case and whose password hash matches, 0 for None.
AuthenticateUser(us, username, password) ==
    LET hits == {i \in 1..Len(us) : /\ Lower(us[i].username) = Lower(username)
                                    /\ us[i].password_hash = HashPassword(password)}
    IN IF hits = {} THEN 0 ELSE SetMin(hits)

\* tokens[token] = user.id
WithToken(tks, token, uid) ==
    [t \in DOMAIN tks \cup {token} |-> IF t = token THEN uid ELSE tks[t]]

\* A logout that drops every token.
AuthLogoutAll(tks, token) ==
    [tokens |-> NoTokens, existed |-> token \in DOMAIN tks]

\* auth.logout: the token map afterwards and whether the token existed.
AuthLogout(tks, token) ==
    IF token \in DOMAIN tks
    THEN [tokens |-> [t \in DOMAIN tks \ {token} |-> tks[t]], existed |-> TRUE]
    ELSE [tokens |-> tks, existed |-> FALSE]

\* do_POST, /api/auth/register/.  role is body.get("role", "MEMBER").
Register(body) ==
    LET role == IF body.role = NoStr THEN "MEMBER" ELSE body.role
        r == RegisterUser(users, body.username, body.email, body.password, role)
    IN IF body.username = NoStr \/ body.email = NoStr \/ body.password = NoStr
       THEN Refuse("register", 400, "invalid")
       ELSE IF r.error # "none"
       THEN Refuse("register", 400, r.error)
       ELSE /\ users' = r.users
            /\ resp' = Response("register", 201, "created", r.users[Len(r.users)].id)
            /\ UNCHANGED <<tokens, authors, books, loans>>

\* do_POST, /api/auth/login/, with auth.login: the token is a value of
\* token_hex that is not in the token map.
Login(username, password) ==
    LET u == AuthenticateUser(users, username, password)
    IN IF username = NoStr \/ password = NoStr
       THEN Refuse("login", 400, "invalid")
       ELSE IF u = 0
       THEN Refuse("login", 401, "invalid_credentials")
       ELSE /\ \E t \in TokenPool \ DOMAIN tokens :
                 /\ tokens' = WithToken(tokens, t, users[u].id)
                 /\ resp' = [op |-> "login", status |-> 200, code |-> "ok",
                             id |-> None, token |-> t]
            /\ UNCHANGED <<users, authors, books, loans>>

\* do_POST, /api/auth/logout/.
Logout(header) ==
    LET u == GetAuthUser(tokens, users, header)
        token == IF header = NoHeader THEN "" ELSE header
        r == AuthLogout(tokens, token)
    IN IF u = 0
       THEN Refuse("logout", 401, "not_authenticated")
       ELSE IF r.existed
       THEN /\ tokens' = r.tokens
            /\ resp' = Response("logout", 204, "no_content", None)
            /\ UNCHANGED <<users, authors, books, loans>>
       ELSE Refuse("logout", 401, "invalid")

\* Registration bodies: names and emails that differ in case only or not at
\* all, a role outside the three, and a body with a field missing.
RegisterBodies ==
    [username : {"alice", "Alice", "bob"}, email : {"a@x", "A@X", "b@x"},
     password : {"pw"}, role : {NoStr}]
    \cup {[username |-> "bob", email |-> "b@x", password |-> "pw2", role |-> "guest"],
          [username |-> "bob", email |-> NoStr, password |-> "pw", role |-> NoStr]}

LoginNames == {"alice", "Alice", "bob", NoStr}
Passwords == {"pw", "pw2"}
AuthHeaders == TokenPool \cup {"bad", NoHeader}

AuthInit ==
    /\ users = <<>>
    /\ tokens = NoTokens
    /\ authors = <<>>
    /\ books = <<>>
    /\ loans = <<>>
    /\ resp = Response("init", 0, "none", None)
    /\ IdleConc

AuthNext ==
    \/ \E body \in RegisterBodies : Register(body) /\ UNCHANGED conc
    \/ \E n \in LoginNames, pw \in Passwords : Login(n, pw) /\ UNCHANGED conc
    \/ \E h \in AuthHeaders : Logout(h) /\ UNCHANGED conc

SpecAuth == AuthInit /\ [][AuthNext]_vars

\* C16: a successful login adds exactly one token that was not in the map,
\* mapped to the authenticated user, answers with it and leaves every other
\* token as it was; a failed login and a register leave the map alone; a
\* logout with a token removes exactly that token and succeeds exactly when
\* the token was in the map, after which the token resolves to no user; and a
\* token resolves to the same user after every step that is not a logout
\* with it.
C16_TokenLifecycle ==
    [][/\ resp'.op = "login" =>
            \A n \in LoginNames, pw \in Passwords : Login(n, pw) =>
                IF resp'.status = 200
                THEN \E t \in TokenPool \ DOMAIN tokens :
                        /\ resp'.token = t
                        /\ DOMAIN tokens' = DOMAIN tokens \cup {t}
                        /\ \A o \in DOMAIN tokens : tokens'[o] = tokens[o]
                        /\ \E i \in 1..Len(users) :
                              /\ Lower(users[i].username) = Lower(n)
                              /\ users[i].password_hash = HashPassword(pw)
                              /\ tokens'[t] = users[i].id
                ELSE tokens' = tokens
       /\ resp'.op = "logout" =>
            \A h \in AuthHeaders : Logout(h) =>
                /\ DOMAIN tokens' = DOMAIN tokens \ {h}
                /\ \A o \in DOMAIN tokens' : tokens'[o] = tokens[o]
                /\ (resp'.status = 204) <=> (h \in DOMAIN tokens)
                /\ GetUserByToken(tokens', users', h) = 0
       /\ resp'.op \notin {"login", "logout"} => tokens' = tokens
       /\ \A t \in DOMAIN tokens :
            \/ /\ GetUserByToken(tokens, users, t) # 0
               /\ GetUserByToken(tokens', users', t) = GetUserByToken(tokens, users, t)
               /\ users'[GetUserByToken(tokens', users', t)].id = tokens[t]
            \/ Logout(t) /\ resp'.status = 204]_vars

\* A user holds two tokens after a third token was logged out.
C16_Witness ==
    /\ resp.op = "logout"
    /\ resp.status = 204
    /\ \E t, o \in DOMAIN tokens : t # o /\ tokens[t] = tokens[o]
    /\ Cardinality(DOMAIN tokens) = 2

UniqueUsers(us) ==
    \A i, j \in 1..Len(us) :
        i # j => /\ Lower(us[i].username) # Lower(us[j].username)
                 /\ Lower(us[i].email) # Lower(us[j].email)

\* C17: after every register no two users have usernames or emails that are
\* equal ignoring case; a register with username, email and password whose
\* username matches a user's ignoring case answers username_taken, one whose
\* username is free and whose email matches answers email_taken, and both
\* leave users unchanged.
C17_RegisterUnique ==
    [][resp'.op = "register" =>
         /\ UniqueUsers(users')
         /\ \A body \in RegisterBodies :
              (Register(body) /\ NoStr \notin {body.username, body.email, body.password}) =>
                 LET nameHit == \E i \in 1..Len(users) :
                                   Lower(users[i].username) = Lower(body.username)
                     mailHit == \E i \in 1..Len(users) :
                                   Lower(users[i].email) = Lower(body.email)
                 IN /\ nameHit => resp'.code = "username_taken" /\ users' = users
                    /\ (~nameHit /\ mailHit) =>
                          resp'.code = "email_taken" /\ users' = users
                    /\ (~nameHit /\ ~mailHit) =>
                          /\ resp'.status = 201
                          /\ Len(users') = Len(users) + 1]_vars

\* A register was refused for its email although Alice's is written A@X.
C17_Witness ==
    /\ resp.op = "register"
    /\ resp.code = "email_taken"
    /\ Len(users) = 1
    /\ users[1].username = "Alice"
    /\ users[1].email = "A@X"

\* C18: no step removes or reorders a loan or changes the id, user_id,
\* book_id, borrowed_at or due_at of a loan on file; returned_at changes only
\* from unset to set, and only in a return that is answered 200.
C18_LoansAppendOnly ==
    [][/\ Len(loans') >= Len(loans)
       /\ \A i \in 1..Len(loans) :
            /\ loans'[i].id = loans[i].id
            /\ loans'[i].user_id = loans[i].user_id
            /\ loans'[i].book_id = loans[i].book_id
            /\ loans'[i].borrowed_at = loans[i].borrowed_at
            /\ loans'[i].due_at = loans[i].due_at
            /\ loans'[i].returned_at # loans[i].returned_at =>
                  /\ loans[i].returned_at = None
                  /\ resp'.op = "return"
                  /\ resp'.status = 200]_vars

\* Both loans on file were returned, the second by the last request, and the
\* first kept its due date.
C18_Witness ==
    /\ Len(loans) = 2
    /\ loans[1].returned_at # None
    /\ loans[1].due_at = loans[1].borrowed_at + LoanDays
    /\ resp.op = "return"
    /\ resp.status = 200
    /\ loans[2].returned_at # None

\* ------------------------------------------------- PUT /api/books/{id}/
\* Update bodies: every pair of total_copies and available_copies, absent,
\* convertible or not; every mix of the other four fields, each absent, good
\* or bad (an author id that names no author, a year that does not convert);
\* and bodies with a value that overflows beside a good one.
NoUpdate ==
    [title |-> NoStr, publication_year |-> None, isbn |-> NoStr, author |-> None,
     total_copies |-> None, available_copies |-> None]

UpdateBodies ==
    [title : {NoStr}, publication_year : {None}, isbn : {NoStr}, author : {None},
     total_copies : {None, NotInt} \cup CopyInputs,
     available_copies : {None, NotInt} \cup CopyInputs]
    \cup [title : {NoStr, "U"}, publication_year : {None, 2001, NotInt},
          isbn : {NoStr, "J"}, author : {None, 2, 9, NotInt},
          total_copies : {None}, available_copies : {None}]
    \cup {[NoUpdate EXCEPT !.publication_year = NotInt, !.total_copies = 1],
          [NoUpdate EXCEPT !.author = 9, !.total_copies = 0, !.title = "U"],
          [NoUpdate EXCEPT !.publication_year = Infinite, !.title = "U"],
          [NoUpdate EXCEPT !.author = Infinite],
          [NoUpdate EXCEPT !.total_copies = Infinite, !.isbn = "J"],
          [NoUpdate EXCEPT !.available_copies = Infinite, !.total_copies = 0]}

UpdateHeaders == {"tL", "tA", NoHeader}
UpdateIds == {1, 2}

\* Two authors and one book on file, one of its copies lent.
UpdateInit ==
    /\ users = RegisterAll(<<>>, SeedAccounts)
    /\ tokens = SeedTokens
    /\ authors = <<[id |-> 1, name |-> "Ann"], [id |-> 2, name |-> "Bea"]>>
    /\ books = <<[id |-> 1, title |-> "T", publication_year |-> 2000, isbn |-> "I",
                  author_id |-> 1, total_copies |-> MaxCopies,
                  available_copies |-> MaxCopies - 1]>>
    /\ loans = <<>>
    /\ resp = Response("init", 0, "none", None)
    /\ IdleConc

UpdateNext ==
    \E h \in UpdateHeaders, i \in UpdateIds :
       \E body \in BodiesRead(h, StaffRoles, UpdateBodies) :
          BookUpdate(h, i, body) /\ UNCHANGED conc

SpecUpdate == UpdateInit /\ [][UpdateNext]_vars

\* The header's token resolves to a librarian or an administrator.
StaffHeader(h) == RequireRole(users, GetAuthUser(tokens, users, h), StaffRoles)

C20_AsStated ==
    [][resp'.op = "book_update" =>
         \A h \in UpdateHeaders, i \in UpdateIds :
          (StaffHeader(h) /\ FindById(books, i) # 0) =>
           \A body \in UpdateBodies :
            BookUpdate(h, i, body) =>
               LET b == FindById(books, i)
                   old == books[b]
                   new == books'[b]
               IN /\ resp'.status = 200
                  /\ Len(books') = Len(books)
                  /\ \A k \in 1..Len(books) : k # b => books'[k] = books[k]
                  /\ new.id = old.id
                  /\ new.title = IF body.title # NoStr THEN body.title ELSE old.title
                  /\ new.isbn = IF body.isbn # NoStr THEN body.isbn ELSE old.isbn
                  /\ new.publication_year =
                        IF Converts(body.publication_year)
                        THEN body.publication_year ELSE old.publication_year
                  /\ new.author_id =
                        IF Converts(body.author) /\ FindById(authors, body.author) # 0
                        THEN body.author ELSE old.author_id
                  /\ new.total_copies =
                        IF Converts(body.total_copies)
                        THEN body.total_copies ELSE old.total_copies
                  /\ (body.total_copies = None /\ ~Converts(body.available_copies))
                        => new.available_copies = old.available_copies
                  /\ Converts(body.available_copies)
                        => new.available_copies = body.available_copies
                  /\ authors' = authors
                  /\ loans' = loans]_vars

\* The unreturned loans on file for a book id.
UnreturnedOn(bid) ==
    {i \in 1..Len(loans) : loans[i].book_id = bid /\ loans[i].returned_at = None}

\* C26: for a book that was filed with available_copies = total_copies and
\* has seen borrow and return requests only, available_copies plus the number
\* of unreturned loans on the book equals total_copies in every state.
C26_CopyConservation ==
    \A b \in 1..Len(books) :
        books[b].available_copies + Cardinality(UnreturnedOn(books[b].id))
            = books[b].total_copies

\* One loan on the book was returned and another is still out.
C26_Witness ==
    /\ Len(loans) = 2
    /\ \E i, j \in 1..Len(loans) :
          /\ loans[i].returned_at # None
          /\ loans[j].returned_at = None
          /\ loans[i].book_id = 1
          /\ loans[j].book_id = 1
    /\ books[1].available_copies = books[1].total_copies - 1

\* ------------------------------------------------------------ utils.paginate
\* Lists of at most MaxItems items, and page numbers and sizes from below 1
\* to beyond the last page.
RECURSIVE SeqsUpTo(_, _)
SeqsUpTo(S, n) ==
    IF n = 0 THEN {<<>>}
    ELSE SeqsUpTo(S, n - 1)
         \cup {Append(q, x) : q \in {r \in SeqsUpTo(S, n - 1) : Len(r) = n - 1}, x \in S}

ItemLists == SeqsUpTo({"a", "b"}, MaxItems)
PageInputs == (0 - 1)..(MaxItems + 1)

\* One call of paginate: the arguments and what it returned.
PaginateCall(items, page, page_size) ==
    /\ resp' = [op |-> "paginate", status |-> 200, code |-> "ok", id |-> None,
                items |-> items, page |-> page, page_size |-> page_size,
                out |-> Paginate(items, page, page_size)]
    /\ UNCHANGED store

PaginateInit ==
    /\ users = <<>>
    /\ tokens = NoTokens
    /\ authors = <<>>
    /\ books = <<>>
    /\ loans = <<>>
    /\ resp = Response("init", 0, "none", None)
    /\ IdleConc

PaginateNext ==
    \E items \in ItemLists, page \in PageInputs, page_size \in PageInputs :
       PaginateCall(items, page, page_size) /\ UNCHANGED conc

SpecPaginate == PaginateInit /\ [][PaginateNext]_vars

\* The slices of pages from..total of a list, one after the other.
RECURSIVE PagesJoined(_, _, _, _)
PagesJoined(items, from, total, page_size) ==
    IF from > total THEN <<>>
    ELSE Paginate(items, from, page_size).results
            \o PagesJoined(items, from + 1, total, page_size)

\* C22: after every call, page and page_size are the arguments raised to at
\* least 1, count is the length of the list, total_pages is the least number
\* of pages of that size that hold count items, the results are the items at
\* positions (page-1)*page_size+1 .. page*page_size that exist, in order (none
\* for a page beyond total_pages), and the pages 1..total_pages joined give
\* the list back.
C22_Paginate ==
    resp.op = "paginate" =>
        LET p == SetMax({resp.page, 1})
            ps == SetMax({resp.page_size, 1})
            n == Len(resp.items)
            out == resp.out
            first == (p - 1) * ps
        IN /\ out.page = p
           /\ out.page_size = ps
           /\ out.count = n
           /\ out.total_pages * ps >= n
           /\ (out.total_pages - 1) * ps < n \/ (n = 0 /\ out.total_pages = 0)
           /\ Len(out.results) = SetMax({0, SetMin({ps, n - first})})
           /\ \A k \in 1..Len(out.results) : out.results[k] = resp.items[first + k]
           /\ p > out.total_pages => out.results = <<>>
           /\ PagesJoined(resp.items, 1, out.total_pages, ps) = resp.items

\* A call for the last page of a list that does not fill it, with a page
\* size that is not 1.
C22_Witness ==
    /\ resp.op = "paginate"
    /\ Len(resp.items) = 3
    /\ resp.page = 2
    /\ resp.page_size = 2
    /\ resp.out.results = <<resp.items[3]>>
    /\ resp.out.total_pages = 2

\* ------------------------------------------------- routing and request input
\* int(parts[0]) of _parse_resource_path: the number a path segment spells,
\* NotInt when int() raises ValueError.
IntOf(segment) ==
    CASE segment = "1" -> 1
      [] segment = "2" -> 2
      [] segment = "0" -> 0
      [] segment = "-7" -> 0 - 7
      [] OTHER -> NotInt

\* _parse_resource_path on a path that starts with the prefix.  remainder is
\* path[len(prefix):] split at "/" without the empty part a trailing slash
\* leaves, so <<>> is the prefix itself.  has_id is `res_id is not None`, and
\* base starts with the prefix in all three cases.
ParseResourcePath(remainder) ==
    IF remainder = <<>>
    THEN [base |-> "prefix", has_id |-> FALSE, id |-> None]
    ELSE IF IntOf(remainder[1]) = NotInt
    THEN [base |-> "path", has_id |-> FALSE, id |-> None]
    ELSE [base |-> "prefix_id", has_id |-> TRUE, id |-> IntOf(remainder[1])]

\* int(params.get("page", 1) or 1) raises ValueError, which do_GET does not catch.
PageFails(params) == NotInt \in {params.page, params.page_size}

\* do_GET on a path under /api/authors/: the list when the parser gives no
\* id, the detail otherwise.  No search and no ordering parameter.
AuthorsGet(remainder, params) ==
    LET r == ParseResourcePath(remainder)
        a == FindById(authors, r.id)
    IN /\ resp' =
            IF ~r.has_id
            THEN IF PageFails(params)
                 THEN ReadResponse("authors_list", 0, "no_response", 0, None, NoPage)
                 ELSE ReadResponse("authors_list", 200, "ok", 0, None,
                         Paginate(authors, PageOf(params), PageSizeOf(params)))
            ELSE IF a = 0
                 THEN ReadResponse("author_detail", 404, "not_found", 0, r.id, NoPage)
                 ELSE ReadResponse("author_detail", 200, "ok", 0, r.id,
                         [NoPage EXCEPT !.results = <<authors[a]>>, !.count = 1])
       /\ UNCHANGED store

\* do_DELETE on a path under /api/authors/: without an id the path matches no
\* branch and the handler ends in its 404.
AuthorDeleteAt(header, remainder) ==
    LET r == ParseResourcePath(remainder)
    IN IF r.has_id
       THEN AuthorDelete(header, r.id)
       ELSE Refuse("author_delete", 404, "not_found")

\* Paths under the prefix: the prefix, ids with and without a record, zero, a
\* negative number, a word, and an id followed by another segment.
Remainders ==
    {<<>>, <<"1">>, <<"2">>, <<"0">>, <<"-7">>, <<"abc">>, <<"1", "extra">>}

PageQueries ==
    {[NoQuery EXCEPT !.page = pg, !.page_size = ps] :
        pg \in {None, 2, NotInt}, ps \in {None, 1, NotInt}}

\* What a borrow body may carry as book_id, or be.
BorrowInputs == BookIdInputs \cup {NotInt, NonScalar, Infinite, NotObject}

RouteHeaders == {"tL", "tA", NoHeader}
RouteAuthorIds == {1, 2}

RouteInit ==
    /\ users = RegisterAll(<<>>, SeedAccounts)
    /\ tokens = SeedTokens
    /\ authors = <<[id |-> 1, name |-> "Ann"], [id |-> 2, name |-> "Bea"]>>
    /\ books = <<ShelfBook>>
    /\ loans = <<>>
    /\ resp = Response("init", 0, "none", None)
    /\ IdleConc

RouteNext ==
    \/ \E r \in Remainders, q \in PageQueries :
          AuthorsGet(r, q) /\ UNCHANGED conc
    \/ \E h \in RouteHeaders, r \in Remainders :
          AuthorDeleteAt(h, r) /\ UNCHANGED conc
    \/ \E h \in RouteHeaders : \E n \in BodiesRead(h, StaffRoles, AuthorNames) :
          /\ AuthorCreate(h, n)
          /\ resp'.status = 201 => resp'.id \in RouteAuthorIds
          /\ UNCHANGED conc
    \/ \E h \in RouteHeaders : \E b \in BodiesRead(h, AnyRole, BorrowInputs) :
          Borrow(h, b) /\ UNCHANGED conc

SpecRouting == RouteInit /\ [][RouteNext]_vars

\* C21 as stated: every request handled so far was answered, a failed one
\* with a 4xx status and a code.
C21_AsStated ==
    resp.op # "init" =>
        /\ resp.status \in {200, 201, 204, 400, 401, 403, 404, 409}
        /\ resp.status >= 400 => resp.code \notin {"ok", "created", "no_content", "none"}

\* A remainder that spells a positive integer and nothing else.
DetailPath(r) == Len(r) = 1 /\ IntOf(r[1]) # NotInt /\ IntOf(r[1]) > 0

\* C24 as stated: a GET or DELETE under /api/authors/ is a detail operation on
\* id n only when the remainder is the positive integer n and nothing else, a
\* list operation only when the remainder is empty, and ends in 404 for every
\* other remainder (requests that got a response).
C24_AsStated ==
    [][(resp'.op \in {"authors_list", "author_detail", "author_delete"}
          /\ resp'.code # "no_response") =>
         \A r \in Remainders :
            (\/ \E q \in PageQueries : AuthorsGet(r, q)
             \/ \E h \in RouteHeaders : AuthorDeleteAt(h, r))
            => IF r = <<>>
               THEN resp'.op = "authors_list" \/ resp'.status = 404
               ELSE IF DetailPath(r)
               THEN resp'.op \in {"author_detail", "author_delete"}
               ELSE resp'.status = 404 /\ authors' = authors]_vars

\* ------------------------------------------------ a book id given out again
\* The store after book 1 was created with MaxCopies copies and borrowed by
\* the librarian and by the member; books created from here on are titled N.
LentBook == [ShelfBook EXCEPT !.available_copies = MaxCopies - 2]

LentLoans ==
    LET first == NewLoan(<<>>, 1, 1, 1)
    IN <<first, NewLoan(<<first>>, 2, 1, 1)>>

LaterBookBodies ==
    [title : {"N"}, publication_year : {2001}, isbn : {"J"}, author : {1},
     total_copies : CopyInputs, available_copies : {None} \cup CopyInputs]

ReuseInit ==
    /\ users = RegisterAll(<<>>, SeedAccounts)
    /\ tokens = SeedTokens
    /\ authors = <<[id |-> 1, name |-> "Ann"]>>
    /\ books = <<LentBook>>
    /\ loans = LentLoans
    /\ resp = Response("init", 0, "none", None)
    /\ IdleConc

ReuseNext ==
    \/ \E h \in Headers : \E body \in BodiesRead(h, AnyRole, ReturnBodies) :
          Return(h, body.loan_id, body.book_id) /\ UNCHANGED conc
    \/ \E h \in Headers, i \in BookIdBound :
          BookDelete(h, i) /\ UNCHANGED conc
    \/ \E h \in Headers : \E body \in BodiesRead(h, StaffRoles, LaterBookBodies) :
          /\ BookCreate(h, body)
          /\ resp'.status = 201 => resp'.id \in BookIdBound
          /\ UNCHANGED conc

SpecReuse == ReuseInit /\ [][ReuseNext]_vars

\* C27 as stated: a successful return changes available_copies only of the
\* book that was borrowed.  Every loan on file comes from a borrow of the book
\* titled T, so no return changes a book titled N, which was created after
\* that book was deleted.
C27_AsStated ==
    [][(resp'.op = "return" /\ resp'.status = 200) =>
         /\ Len(books') = Len(books)
         /\ \A k \in 1..Len(books) :
               books[k].title = "N" => books'[k] = books[k]]_vars

\* ------------------------------------------------ interleaved return requests
\* One unreturned loan of the member on a book with no copy on the shelf; the
\* librarian, the member and another member each send a return naming loan 1.
OutBook == [LastCopy EXCEPT !.available_copies = 0]

ReturnConcInit ==
    /\ users = RegisterAll(<<>>, SeedAccounts)
    /\ tokens = ConcTokens
    /\ authors = <<[id |-> 1, name |-> "Ann"]>>
    /\ books = <<OutBook>>
    /\ loans = <<NewLoan(<<>>, 2, 1, 1)>>
    /\ resp = Response("init", 0, "none", None)
    /\ IdleConc

\* The request arrives; the role check and the body parse (lines 195-201).
ReturnBegin(p) ==
    /\ pc[p] = "idle"
    /\ req' = [req EXCEPT ![p] = [header |-> ConcHeader(p), book |-> None, loan |-> 1]]
    /\ IF RequireRole(users, GetAuthUser(tokens, users, ConcHeader(p)), AnyRole)
       THEN pc' = [pc EXCEPT ![p] = "load_loans"] /\ UNCHANGED lcode
       ELSE Finish(p, "not_authenticated")
    /\ UNCHANGED <<store, resp, lbooks, lloans>>

\* loans = storage.load_loans() (line 203)
ReturnLoadLoans(p) ==
    /\ pc[p] = "load_loans"
    /\ lloans' = [lloans EXCEPT ![p] = loans]
    /\ pc' = [pc EXCEPT ![p] = "load_books"]
    /\ UNCHANGED <<store, resp, req, lbooks, lcode>>

\* books = storage.load_books() (line 204), then the target lookup, the
\* checks, and the changes to the handler's own lists (lines 205-234).
ReturnLoadBooks(p) ==
    LET u == GetAuthUser(tokens, users, req[p].header)
        t == TargetLoan(lloans[p], ConcUser(p), req[p].loan, req[p].book)
    IN /\ pc[p] = "load_books"
       /\ IF t = 0
          THEN Finish(p, "not_found") /\ lbooks' = [lbooks EXCEPT ![p] = books]
                                      /\ UNCHANGED lloans
          ELSE IF ReturnForbidden(users, u, lloans[p][t])
          THEN Finish(p, "permission_denied") /\ lbooks' = [lbooks EXCEPT ![p] = books]
                                              /\ UNCHANGED lloans
          ELSE IF AlreadyReturned(lloans[p][t])
          THEN Finish(p, "already_returned") /\ lbooks' = [lbooks EXCEPT ![p] = books]
                                             /\ UNCHANGED lloans
          ELSE /\ \E now \in ReturnTimes :
                    lloans' = [lloans EXCEPT ![p] = MarkReturned(lloans[p], t, now)]
               /\ lbooks' = [lbooks EXCEPT ![p] = GiveCopy(books, lloans[p][t].book_id)]
               /\ pc' = [pc EXCEPT ![p] =
                           IF FindById(books, lloans[p][t].book_id) # 0
                           THEN "save_books" ELSE "save_loans"]
               /\ UNCHANGED lcode
       /\ UNCHANGED <<store, resp, req>>

\* storage.save_books(books) (line 235)
ReturnSaveBooks(p) ==
    /\ pc[p] = "save_books"
    /\ books' = lbooks[p]
    /\ pc' = [pc EXCEPT ![p] = "save_loans"]
    /\ UNCHANGED <<users, tokens, authors, loans, resp, req, lbooks, lloans, lcode>>

\* storage.save_loans(loans) and the 200 response (lines 236-237)
ReturnSaveLoans(p) ==
    /\ pc[p] = "save_loans"
    /\ loans' = lloans[p]
    /\ Finish(p, "ok")
    /\ UNCHANGED <<users, tokens, authors, books, resp, req, lbooks, lloans>>

ReturnConcNext ==
    \/ \E p \in Procs : ReturnBegin(p) /\ UNCHANGED files
    \/ \E p \in Procs : ReturnLoadLoans(p) /\ UNCHANGED files
    \/ \E p \in Procs : ReturnLoadBooks(p) /\ UNCHANGED files
    \/ \E p \in Procs : ReturnSaveBooks(p) /\ UNCHANGED files
    \/ \E p \in Procs : ReturnSaveLoans(p) /\ UNCHANGED files

SpecConcReturn == ReturnConcInit /\ [][ReturnConcNext]_vars

\* C29 as stated: when the returns of the librarian and of the owner for the
\* same unreturned loan have both been answered, available_copies was raised
\* once and one of the two got 200, the other already_returned.
C29_AsStated ==
    (\A p \in Procs : pc[p] = "done")
       => /\ books[1].available_copies = 1
          /\ \E p, q \in {1, 2} :
                p # q /\ lcode[p] = "ok" /\ lcode[q] = "already_returned"

\* ------------------------------------------------- every kind of request
\* The whole API handled one request at a time: the accounts, the catalogue
\* and the loans change together.  Ids run up to 2 in each of the catalogue
\* collections and the loans, one account can be added to the seeded ones,
\* and one token can be issued beyond the seeded ones.  The member is the
\* only borrower.
LibraryIds == {1, 2}
LibraryHeaders == {"tL", "tA", NoHeader}
BorrowerHeaders == {"tA", NoHeader}
LibraryTokenPool == {"t1"}

LibraryRegisterBodies ==
    {[username |-> "zoe", email |-> "z@x", password |-> "pw", role |-> NoStr],
     [username |-> "Alice", email |-> "n@x", password |-> "pw", role |-> NoStr],
     [username |-> "zoe", email |-> NoStr, password |-> "pw", role |-> NoStr]}

LibraryBookBodies ==
    {[title |-> "T", publication_year |-> 2000, isbn |-> "I", author |-> a,
      total_copies |-> 1, available_copies |-> None] : a \in {1, 9}}
    \cup {[title |-> NoStr, publication_year |-> 2000, isbn |-> "I", author |-> 1,
           total_copies |-> 1, available_copies |-> None]}

LibraryUpdateBodies ==
    {[title |-> NoStr, publication_year |-> None, isbn |-> NoStr, author |-> a,
      total_copies |-> None, available_copies |-> None] : a \in {1, 9}}

LibraryInit ==
    /\ users = RegisterAll(<<>>, SeedAccounts)
    /\ tokens = SeedTokens
    /\ authors = <<>>
    /\ books = <<>>
    /\ loans = <<>>
    /\ resp = Response("init", 0, "none", None)
    /\ IdleConc

LibraryNext ==
    \/ \E body \in LibraryRegisterBodies : Register(body) /\ UNCHANGED conc
    \/ \E n \in {"lib", NoStr}, pw \in {"pw", "no"} :
          /\ Login(n, pw)
          /\ resp'.status = 200 => resp'.token \in LibraryTokenPool
          /\ UNCHANGED conc
    \/ \E h \in LibraryTokenPool \cup {NoHeader} : Logout(h) /\ UNCHANGED conc
    \/ \E h \in BorrowerHeaders, b \in {None} \cup LibraryIds :
          /\ Borrow(h, b)
          /\ resp'.status = 201 => resp'.id \in LibraryIds
          /\ UNCHANGED conc
    \/ \E h \in BorrowerHeaders, l \in {None} \cup LibraryIds :
          Return(h, l, None) /\ UNCHANGED conc
    \/ \E h \in LibraryHeaders, n \in {"Ann", NoStr} :
          /\ AuthorCreate(h, n)
          /\ resp'.status = 201 => resp'.id \in LibraryIds
          /\ UNCHANGED conc
    \/ \E h \in LibraryHeaders, i \in LibraryIds :
          AuthorUpdate(h, i, "Ann") /\ UNCHANGED conc
    \/ \E h \in LibraryHeaders, i \in LibraryIds :
          AuthorDelete(h, i) /\ UNCHANGED conc
    \/ \E h \in LibraryHeaders, body \in LibraryBookBodies :
          /\ BookCreate(h, body)
          /\ resp'.status = 201 => resp'.id \in LibraryIds
          /\ UNCHANGED conc
    \/ \E h \in LibraryHeaders, i \in LibraryIds, body \in LibraryUpdateBodies :
          BookUpdate(h, i, body) /\ UNCHANGED conc
    \/ \E h \in LibraryHeaders, i \in LibraryIds :
          BookDelete(h, i) /\ UNCHANGED conc

SpecLibrary == LibraryInit /\ [][LibraryNext]_vars

\* C28: a request answered with 400, 401, 403, 404 or 409 (a refused
\* register, login, logout, borrow, return, create, update or delete) leaves
\* the users, the tokens, the authors, the books and the loans as they were.
C28_RefusalChangesNothing ==
    [][resp'.status \in {400, 401, 403, 404, 409}
          => /\ users' = users
             /\ tokens' = tokens
             /\ authors' = authors
             /\ books' = books
             /\ loans' = loans]_vars

\* A return of a loan that was already returned has been refused while every
\* collection held records, an added account and an added token among them.
C28_Witness ==
    /\ resp.op = "return" /\ resp.status = 409
    /\ Len(authors) > 0 /\ Len(books) > 0 /\ Len(loans) > 0
    /\ Len(users) > 5 /\ Cardinality(DOMAIN tokens) > 3

\* --------------------------------------------------------------- C23: ids
\* The ids of a collection are pairwise distinct.
DistinctIds(seq) ==
    \A i, j \in 1..Len(seq) : i # j => seq[i].id # seq[j].id

\* n is 1 + the largest id of the collection, 1 when the collection is empty.
OnePastLargest(seq, n) ==
    /\ n >= 1
    /\ \A i \in 1..Len(seq) : seq[i].id < n
    /\ n = 1 \/ \E i \in 1..Len(seq) : seq[i].id = n - 1

\* The step appended one record to the collection, with id 1 + the largest id
\* the collection held, and answered with that id.
CreatedIn(before, after) ==
    /\ Len(after) = Len(before) + 1
    /\ SubSeq(after, 1, Len(before)) = before
    /\ after[Len(after)].id = resp'.id
    /\ OnePastLargest(before, resp'.id)

CreateAssignsNextId ==
    /\ resp'.op = "register" /\ resp'.status = 201 => CreatedIn(users, users')
    /\ resp'.op = "author_create" /\ resp'.status = 201 => CreatedIn(authors, authors')
    /\ resp'.op = "book_create" /\ resp'.status = 201 => CreatedIn(books, books')
    /\ resp'.op = "borrow" /\ resp'.status = 201 => CreatedIn(loans, loans')

\* The id the step's delete removed, when that id was the highest of the
\* collection: the empty set for any other step.
HighestDeleted(before, after) ==
    {i \in Ids(before) \ Ids(after) : \A x \in Ids(before) : x <= i}

AllIdsDistinct ==
    /\ DistinctIds(users)
    /\ DistinctIds(authors)
    /\ DistinctIds(books)
    /\ DistinctIds(loans)

\* C23 as stated: each created user, author, book or loan receives 1 + the
\* largest id of its collection (1 when it is empty), the ids of a collection
\* are pairwise distinct in every reachable state, and once the highest-id
\* author or book is deleted the id the next created one receives is that
\* same id.
C23_AsStated ==
    /\ []AllIdsDistinct
    /\ [][/\ CreateAssignsNextId
          /\ \A i \in HighestDeleted(authors, authors') : OnePastLargest(authors', i)
          /\ \A i \in HighestDeleted(books, books') : OnePastLargest(books', i)]_vars

\* C23, amended: each created user, author, book or loan receives 1 + the
\* largest id of its collection (1 when it is empty), the ids of a collection
\* are pairwise distinct in every reachable state, and once the highest-id
\* author or book is deleted the id the next created one receives is a freed
\* id no larger than the deleted one: the deleted id itself exactly when the
\* id before it is still in the collection or the deleted id was 1.
C23_IdsAssigned ==
    /\ []AllIdsDistinct
    /\ [][/\ CreateAssignsNextId
          /\ \A i \in HighestDeleted(authors, authors') :
                /\ \E n \in 1..i : OnePastLargest(authors', n)
                /\ OnePastLargest(authors', i) <=> (i = 1 \/ i - 1 \in Ids(authors'))
          /\ \A i \in HighestDeleted(books, books') :
                /\ \E n \in 1..i : OnePastLargest(books', n)
                /\ OnePastLargest(books', i) <=> (i = 1 \/ i - 1 \in Ids(books'))]_vars

\* A book has just been created with the id of a book that was borrowed and
\* then deleted, beside another book: the id is in use for the second time.
C23_Witness ==
    /\ resp.op = "book_create" /\ resp.status = 201
    /\ \E l \in 1..Len(loans) : loans[l].book_id = resp.id
    /\ Len(books) = 2
    /\ Len(users) > 5

\* ------------------------------------------------ C30: references by id
\* C30 as stated: in every reachable state every book's author_id is the id
\* of an existing author and every loan's book_id is the id of an existing
\* book, author and book deletes included.
C30_AsStated ==
    /\ \A b \in 1..Len(books) : books[b].author_id \in Ids(authors)
    /\ \A l \in 1..Len(loans) : loans[l].book_id \in Ids(books)

\* ------------------------------------------- storage._save_json / _load_json
\* A JSON text is a sequence of pieces: the brackets of the list and one piece
\* per book.  A file that was written past its end holds Hole pieces between.
Hole == "nul"

\* json.dump of a book and json.load of its piece.
BookJson(b) == CASE b.id = 1 -> "{1}" [] b.id = 2 -> "{2}"
SecondBook == [ShelfBook EXCEPT !.id = 2]
BookFromJson(t) == CASE t = "{1}" -> ShelfBook [] t = "{2}" -> SecondBook

\* json.dump(data, f): the text of a list of books.
JsonDump(bs) == <<"[">> \o [i \in 1..Len(bs) |-> BookJson(bs[i])] \o <<"]">>

\* The text is one complete list: json.load raises JSONDecodeError otherwise.
Decodes(text) ==
    /\ Len(text) >= 2
    /\ text[1] = "[" /\ text[Len(text)] = "]"
    /\ \A i \in 2..(Len(text) - 1) : text[i] \in {"{1}", "{2}"}

\* _load_json's json.load(f) with its except branch: the decoded list, or the
\* default (an empty list) for a text that does not decode.
JsonLoad(text) ==
    IF Decodes(text)
    THEN [i \in 1..(Len(text) - 2) |-> BookFromJson(text[i + 1])]
    ELSE <<>>

\* write(2) of one piece at an offset of a file: it overwrites, extends, or
\* leaves a hole when the file was truncated below the offset.
RECURSIVE WriteAt(_, _, _)
WriteAt(text, pos, piece) ==
    IF pos < Len(text) THEN [text EXCEPT ![pos + 1] = piece]
    ELSE IF pos = Len(text) THEN Append(text, piece)
    ELSE WriteAt(Append(text, Hole), pos, piece)

\* What _load_json(books.json) returns for a directory and its files.
Stored(d, k) ==
    IF d["books.json"] = 0 THEN <<>> ELSE JsonLoad(k[d["books.json"]])

\* The processes that save the books and the lists they save; the others load.
Savers == {1, 2}
SaveLists == {<<ShelfBook>>, <<ShelfBook, SecondBook>>}

\* _save_json, open(tmp_path, "w"): the temporary file is created, or
\* truncated when it is there (the name is the same for every save).
SaveOpen(p, data) ==
    /\ p \in Savers /\ pc[p] = "idle"
    /\ IF dir["books.tmp"] = 0
       THEN /\ disk' = Append(disk, <<>>)
            /\ dir' = [dir EXCEPT !["books.tmp"] = Len(disk) + 1]
       ELSE /\ disk' = [disk EXCEPT ![dir["books.tmp"]] = <<>>]
            /\ dir' = dir
    /\ fd' = [fd EXCEPT ![p] = [file |-> dir'["books.tmp"], pos |-> 0,
                                text |-> JsonDump(data)]]
    /\ pc' = [pc EXCEPT ![p] = "writing"]
    /\ books' = Stored(dir', disk')
    /\ UNCHANGED <<users, tokens, authors, loans, resp, req, lbooks, lloans, lcode>>

\* _save_json, json.dump into the open file: one buffer of the text reaches
\* the file at the writer's own offset; the file is closed after the last.
SaveWrite(p) ==
    /\ pc[p] = "writing"
    /\ disk' = [disk EXCEPT ![fd[p].file] =
                   WriteAt(@, fd[p].pos, fd[p].text[fd[p].pos + 1])]
    /\ fd' = [fd EXCEPT ![p].pos = @ + 1]
    /\ pc' = [pc EXCEPT ![p] = IF fd[p].pos + 1 = Len(fd[p].text)
                               THEN "closed" ELSE "writing"]
    /\ books' = Stored(dir, disk')
    /\ UNCHANGED <<users, tokens, authors, loans, resp, req, lbooks, lloans, lcode, dir>>

\* _save_json, os.replace(tmp_path, path): the temporary name's file takes the
\* collection's name; FileNotFoundError when another save has renamed it away.
SaveReplace(p) ==
    /\ pc[p] = "closed"
    /\ IF dir["books.tmp"] = 0
       THEN /\ pc' = [pc EXCEPT ![p] = "failed"]
            /\ lcode' = [lcode EXCEPT ![p] = "no_response"]
            /\ UNCHANGED <<dir, books>>
       ELSE /\ dir' = [dir EXCEPT !["books.json"] = dir["books.tmp"],
                                  !["books.tmp"] = 0]
            /\ pc' = [pc EXCEPT ![p] = "saved"]
            /\ lcode' = [lcode EXCEPT ![p] = "ok"]
            /\ books' = Stored(dir', disk)
    /\ fd' = [fd EXCEPT ![p] = NoFd]
    /\ UNCHANGED <<users, tokens, authors, loans, resp, req, lbooks, lloans, disk>>

\* _load_json, path.exists() and open(path): the default when the file is not
\* there, the file the name stands for at this moment otherwise.
LoadOpen(p) ==
    /\ p \notin Savers /\ pc[p] = "idle"
    /\ IF dir["books.json"] = 0
       THEN /\ pc' = [pc EXCEPT ![p] = "loaded"]
            /\ lbooks' = [lbooks EXCEPT ![p] = <<>>]
            /\ lcode' = [lcode EXCEPT ![p] = "default"]
            /\ UNCHANGED fd
       ELSE /\ pc' = [pc EXCEPT ![p] = "reading"]
            /\ fd' = [fd EXCEPT ![p] = [file |-> dir["books.json"], pos |-> 0,
                                        text |-> <<>>]]
            /\ UNCHANGED <<lbooks, lcode>>
    /\ UNCHANGED <<store, resp, req, lloans, dir, disk>>

\* _load_json, json.load(f) of the opened file.
LoadRead(p) ==
    /\ pc[p] = "reading"
    /\ lbooks' = [lbooks EXCEPT ![p] = JsonLoad(disk[fd[p].file])]
    /\ lcode' = [lcode EXCEPT ![p] = IF Decodes(disk[fd[p].file]) THEN "ok" ELSE "default"]
    /\ pc' = [pc EXCEPT ![p] = "loaded"]
    /\ fd' = [fd EXCEPT ![p] = NoFd]
    /\ UNCHANGED <<store, resp, req, lloans, dir, disk>>

\* The process goes on to its next load.
LoadAgain(p) ==
    /\ pc[p] = "loaded"
    /\ pc' = [pc EXCEPT ![p] = "idle"]
    /\ UNCHANGED <<store, resp, req, lbooks, lloans, lcode, files>>

SaveInit ==
    /\ users = RegisterAll(<<>>, SeedAccounts)
    /\ tokens = SeedTokens
    /\ authors = <<[id |-> 1, name |-> "Ann"]>>
    /\ books = <<ShelfBook>>
    /\ loans = <<>>
    /\ resp = Response("init", 0, "none", None)
    /\ pc = [p \in Procs |-> "idle"]
    /\ req = [p \in Procs |-> [header |-> NoHeader, book |-> None]]
    /\ lbooks = [p \in Procs |-> <<>>]
    /\ lloans = [p \in Procs |-> <<>>]
    /\ lcode = [p \in Procs |-> "none"]
    /\ dir = [n \in FileNames |-> IF n = "books.json" THEN 1 ELSE 0]
    /\ disk = <<JsonDump(<<ShelfBook>>)>>
    /\ fd = [p \in Procs |-> NoFd]

SaveNext ==
    \/ \E p \in Procs, data \in SaveLists : SaveOpen(p, data)
    \/ \E p \in Procs : SaveWrite(p)
    \/ \E p \in Procs : SaveReplace(p)
    \/ \E p \in Procs : LoadOpen(p)
    \/ \E p \in Procs : LoadRead(p)
    \/ \E p \in Procs : LoadAgain(p)

SpecSave == SaveInit /\ [][SaveNext]_vars

\* C25 as stated: a load of the books that runs while a save is in progress
\* returns the complete list that was stored before or a complete list that a
\* save wrote, never the reading of a partially written file.
C25_AsStated ==
    \A p \in Procs :
       pc[p] = "loaded" => lbooks[p] \in {<<ShelfBook>>} \cup SaveLists

====
